---- MODULE Spec2Model ----
(***************************************************************************)
(* lazymusic: the widget tree (RootTui, PlayerTui and the leaf widgets),   *)
(* type-directed lookup, event dispatch and rendering, the key map of      *)
(* EventHandler, the run loop of App, and lazy-config: the key-combination *)
(* parser and formatter, the key map records and the configuration file.   *)
(*                                                                         *)
(* Text is modelled as a sequence of characters, each character a string   *)
(* of its own, so that slicing, splitting and lower-casing are computed.   *)
(***************************************************************************)
EXTENDS Integers, Sequences, FiniteSets, TLC

VARIABLES
  tui,     \* the RootTui owned by App: its border facet and its children
  keymap,  \* EventHandler.keymap: (KeyCode, KeyModifiers) -> KeyStatus
  pc,      \* where the caller driving a single operation stands
  ret,     \* what the operation invoked last returned
  rt,      \* the key string / key combination being converted
  running,       \* App.running
  tui_interval,  \* App.tui_interval: the redraw timer
  clock,         \* the time, in units of 100 ms
  terminal,      \* the terminal: how often it was initialised and restored
  iter,          \* the current iteration of the run loop: branches and input
  env,           \* the process environment: HOME and XDG_CONFIG_HOME
  fs,            \* the files LazyConfig reads and writes: path -> contents
  config         \* what LazyConfig::load or write_default_if_not_exists did last

appvars == <<running, tui_interval, clock, terminal, iter>>

cfgvars == <<env, fs, config>>

vars == <<tui, keymap, pc, ret, rt, appvars, cfgvars>>

None == [none |-> TRUE]
Some(v) == [some |-> v]
IsSome(o) == "some" \in DOMAIN o

Min(a, b) == IF a < b THEN a ELSE b
Max(a, b) == IF a > b THEN a ELSE b

(***************************************************************************)
(* Bounds of the model.                                                    *)
(***************************************************************************)
\* longest container drawn in SpecContainer
MaxWidgets == 2

(***************************************************************************)
(* Style facets.  Borders is ratatui's edge mask; the colours of a facet   *)
(* are plain data that no operation modelled here writes.                  *)
(***************************************************************************)
BordersNONE == {}
BordersALL == {"TOP", "RIGHT", "BOTTOM", "LEFT"}

BorderStyleDefault == [border |-> BordersNONE]

\* HasBorderStyle::has_border
has_border(w) == w.border.border # BordersNONE

\* HasBorderStyleSetter::set_border, generated by DeriveHasTuiStyle
set_border(w, border) == [w EXCEPT !.border.border = border]

\* a toggle that inverts the mask edge by edge
toggle_border_invert(w) ==
  [w EXCEPT !.border.border = BordersALL \ @]

\* HasBorderStyleSetter::toggle_border, generated by DeriveHasTuiStyle
toggle_border(w) ==
  LET new_border == IF w.border.border = BordersNONE THEN BordersALL ELSE BordersNONE
  IN  [w EXCEPT !.border.border = new_border]

(***************************************************************************)
(* Leaf widgets, as Default::default() builds them.                        *)
(***************************************************************************)
PlaybackStates == {"Playing", "Paused", "Stopped"}
PlaybackModeVARIANTS == <<"Repeat", "Random", "Consume", "Single">>
NavbarItemVARIANTS ==
  <<"Queue", "Logs", "Directories", "Artists", "AlbumArtists", "Albums", "Playlists", "Search">>

MAX_VOLUME == 100

PlaybackTuiDefault == [type |-> "PlaybackTui", state |-> "Stopped"]
TrackTuiDefault == [type |-> "TrackTui", track |-> "Not Song"]
VolumeTuiDefault == [type |-> "VolumeTui", volume |-> 50]
PlaybackProgressTuiDefault == [type |-> "PlaybackProgressTui", progress |-> 0, duration |-> 0]
ArtistTuiDefault == [type |-> "ArtistTui", artist |-> "Not Artist"]
PlaybackModeTuiDefault == [type |-> "PlaybackModeTui", mode |-> "Repeat"]
NavbarTuiDefault ==
  [type |-> "NavbarTui", border |-> BorderStyleDefault, selected_item |-> "Queue",
   selected_icon |-> "U+E0B0", not_selected_icon |-> "U+E0B1"]
ProgressTuiDefault == [type |-> "ProgressTui", border |-> BorderStyleDefault, ratio |-> 0]

PlayerTuiDefault ==
  [type |-> "PlayerTui", border |-> BorderStyleDefault,
   widgets |-> <<PlaybackTuiDefault, TrackTuiDefault, VolumeTuiDefault,
                 PlaybackProgressTuiDefault, ArtistTuiDefault, PlaybackModeTuiDefault>>]

RootTuiDefault ==
  [type |-> "RootTui", border |-> BorderStyleDefault,
   widgets |-> <<PlayerTuiDefault, NavbarTuiDefault, ProgressTuiDefault>>]

\* RenderTui::as_border_mut: present only where a widget overrides the default
as_border_mut(w) == w.type \in {"NavbarTui", "ProgressTui"}

\* RenderTui::as_event_mut
as_event_mut(w) == w.type \in {"NavbarTui"}

(***************************************************************************)
(* HasWidgets: type-directed lookup.  The result is the index of the child *)
(* found, 0 for None.                                                      *)
(***************************************************************************)
RECURSIVE find_map(_, _, _)
find_map(widgets, T, i) ==
  IF i > Len(widgets) THEN 0
  ELSE IF widgets[i].type = T THEN i
  ELSE find_map(widgets, T, i + 1)

\* a lookup that scans from the back (iter_mut().rev())
get_widget_mut_last(widgets, T) ==
  LET S == {i \in 1..Len(widgets) : widgets[i].type = T}
  IN  IF S = {} THEN 0 ELSE CHOOSE i \in S : \A j \in S : j <= i

get_widget_mut(widgets, T) == find_map(widgets, T, 1)

get_widget(widgets, T) == find_map(widgets, T, 1)

\* delegate_to_widget!(self, T, handler)
delegate_to_widget(self, T, handler(_)) ==
  LET i == get_widget_mut(self.widgets, T)
  IN  IF i # 0 THEN [self EXCEPT !.widgets[i] = handler(@)] ELSE self

(***************************************************************************)
(* Machine integers.                                                       *)
(***************************************************************************)
ToU8(x) == x % 256
ToI16(x) == ((x + 32768) % 65536) - 32768
I8 == -128..127
U8 == 0..255

(***************************************************************************)
(* Leaf widget operations.                                                 *)
(***************************************************************************)
\* a toggle that cycles through all three states
toggle_state_cycle3(w) ==
  [w EXCEPT !.state = CASE @ = "Playing" -> "Paused"
                        [] @ = "Paused" -> "Stopped"
                        [] @ = "Stopped" -> "Playing"]

\* PlaybackTui::toggle_state
toggle_state(w) ==
  [w EXCEPT !.state = CASE @ = "Playing" -> "Paused"
                        [] @ \in {"Paused", "Stopped"} -> "Playing"]

\* PlaybackTui::set_playback_state
set_playback_state(w, state) == [w EXCEPT !.state = state]

\* VolumeTui::set_volume
set_volume(w, volume) == [w EXCEPT !.volume = Min(volume, MAX_VOLUME)]

\* an adjust_volume that adds in u8 and only caps the top
adjust_volume_u8(w, delta) ==
  [w EXCEPT !.volume = Min(ToU8(w.volume + delta), MAX_VOLUME)]

\* VolumeTui::adjust_volume
adjust_volume(w, delta) ==
  LET new == ToI16(ToI16(w.volume) + ToI16(delta))
  IN  [w EXCEPT !.volume = ToU8(Max(0, Min(new, ToI16(MAX_VOLUME))))]

\* PlaybackProgressTui::set_progress
set_progress(w, progress) == [w EXCEPT !.progress = progress]

\* PlaybackProgressTui::set_duration
set_duration(w, duration) == [w EXCEPT !.duration = duration]

\* a next() whose Single arm goes to Random
PlaybackMode_next_skip(mode) ==
  CASE mode = "Repeat" -> "Random"
    [] mode = "Random" -> "Consume"
    [] mode = "Consume" -> "Single"
    [] mode = "Single" -> "Random"

\* PlaybackMode::next
PlaybackMode_next(mode) ==
  CASE mode = "Repeat" -> "Random"
    [] mode = "Random" -> "Consume"
    [] mode = "Consume" -> "Single"
    [] mode = "Single" -> "Repeat"

\* PlaybackModeTui::toggle_mode
toggle_mode(w) == [w EXCEPT !.mode = PlaybackMode_next(@)]

\* ArtistTui::set_artist
set_artist(w, artist) == IF w.artist # artist THEN [w EXCEPT !.artist = artist] ELSE w

\* TrackTui::set_track
set_track(w, track) == IF w.track # track THEN [w EXCEPT !.track = track] ELSE w

\* position of an item in NavbarItem::VARIANTS, counted from 0
NavbarItem_position(item) ==
  (CHOOSE i \in 1..Len(NavbarItemVARIANTS) : NavbarItemVARIANTS[i] = item) - 1

\* NavbarItem::next
NavbarItem_next(item) ==
  LET next_index == (NavbarItem_position(item) + 1) % Len(NavbarItemVARIANTS)
  IN  NavbarItemVARIANTS[next_index + 1]

\* NavbarItem::prev
NavbarItem_prev(item) ==
  LET prev_index == (NavbarItem_position(item) + Len(NavbarItemVARIANTS) - 1)
                      % Len(NavbarItemVARIANTS)
  IN  NavbarItemVARIANTS[prev_index + 1]

\* NavbarTui::toggle_navbar
toggle_navbar(w, direction) ==
  CASE direction = "Left" -> [w EXCEPT !.selected_item = NavbarItem_prev(@)]
    [] direction = "Right" -> [w EXCEPT !.selected_item = NavbarItem_next(@)]

\* NavbarTui::set_icon
set_icon(w, selected_icon, not_selected_icon) ==
  LET w1 == IF w.selected_icon # selected_icon
            THEN [w EXCEPT !.selected_icon = selected_icon] ELSE w
  IN  IF w1.not_selected_icon # not_selected_icon
      THEN [w1 EXCEPT !.not_selected_icon = not_selected_icon] ELSE w1

(***************************************************************************)
(* PlaybackProgressTui: the text it draws.                                 *)
(***************************************************************************)
Digits == <<"0", "1", "2", "3", "4", "5", "6", "7", "8", "9">>

\* Display of an unsigned integer, as format!("{}") writes it
RECURSIVE ToDecimal(_)
ToDecimal(n) == IF n < 10 THEN <<Digits[n + 1]>> ELSE ToDecimal(n \div 10) \o <<Digits[(n % 10) + 1]>>

\* the {:0>2} format: right-aligned in a field of at least two, filled with 0
Pad2(n) == LET d == ToDecimal(n) IN IF Len(d) < 2 THEN <<"0">> \o d ELSE d

\* a format that wraps the minutes at the hour
format_duration_hour(duration) ==
  LET total_seconds == duration
      minutes == (total_seconds \div 60) % 60
      seconds == total_seconds % 60
  IN  Pad2(minutes) \o <<":">> \o Pad2(seconds)

\* PlaybackProgressTui::format_duration
format_duration(duration) ==
  LET total_seconds == duration
      minutes == total_seconds \div 60
      seconds == total_seconds % 60
  IN  Pad2(minutes) \o <<":">> \o Pad2(seconds)

\* PlaybackProgressTui::render: the spans of the line, concatenated
PlaybackProgressTui_render(w) ==
  <<"U+E641", " ">> \o format_duration(w.progress) \o <<" ", "/", " ">>
    \o format_duration(w.duration)

(***************************************************************************)
(* Event dispatch.  A TuiEnent is a record: its variant in tag, its        *)
(* positional payload in f0 and f1.                                        *)
(***************************************************************************)
\* an enent_handle whose Track arm writes the artist as well
PlayerTui_enent_handle_track_artist(self, event) ==
  CASE event.tag = "Playback" ->
         LET handler(w) == toggle_state(w)
         IN  delegate_to_widget(self, "PlaybackTui", handler)
    [] event.tag = "Volumei" ->
         LET handler(w) == adjust_volume(w, event.f0)
         IN  delegate_to_widget(self, "VolumeTui", handler)
    [] event.tag = "PlaybackProgress" ->
         LET handler(w) == set_duration(set_progress(w, event.f1), event.f0)
         IN  delegate_to_widget(self, "PlaybackProgressTui", handler)
    [] event.tag = "PlaybackMode" ->
         LET handler(w) == toggle_mode(w)
         IN  delegate_to_widget(self, "PlaybackModeTui", handler)
    [] event.tag = "Artist" ->
         LET handler(w) == set_artist(w, event.f0)
         IN  delegate_to_widget(self, "ArtistTui", handler)
    [] event.tag = "Track" ->
         LET onTrack(w) == set_track(w, event.f0)
             onArtist(w) == set_artist(w, event.f0)
         IN  delegate_to_widget(delegate_to_widget(self, "TrackTui", onTrack),
                                "ArtistTui", onArtist)

\* PlayerTui::enent_handle
PlayerTui_enent_handle(self, event) ==
  CASE event.tag = "Playback" ->
         LET handler(w) == toggle_state(w)
         IN  delegate_to_widget(self, "PlaybackTui", handler)
    [] event.tag = "Volumei" ->
         LET delta == event.f0
             handler(w) == adjust_volume(w, delta)
         IN  delegate_to_widget(self, "VolumeTui", handler)
    [] event.tag = "PlaybackProgress" ->
         LET duration == event.f0
             progress == event.f1
             handler(w) == set_duration(set_progress(w, progress), duration)
         IN  delegate_to_widget(self, "PlaybackProgressTui", handler)
    [] event.tag = "PlaybackMode" ->
         LET handler(w) == toggle_mode(w)
         IN  delegate_to_widget(self, "PlaybackModeTui", handler)
    [] event.tag = "Artist" ->
         LET artist == event.f0
             handler(w) == set_artist(w, artist)
         IN  delegate_to_widget(self, "ArtistTui", handler)
    [] event.tag = "Track" ->
         LET track == event.f0
             handler(w) == set_track(w, track)
         IN  delegate_to_widget(self, "TrackTui", handler)

\* an event_handle whose catch-all arm falls into the Navbar arm
NavbarTui_event_handle_fallthrough(self, event) ==
  CASE event.tag = "Navbar" -> toggle_navbar(self, event.f0)
    [] event.tag = "NavbarIcon" -> set_icon(self, event.f0, event.f1)
    [] OTHER -> toggle_navbar(self, "Right")

\* NavbarTui::event_handle
NavbarTui_event_handle(self, event) ==
  CASE event.tag = "Navbar" -> toggle_navbar(self, event.f0)
    [] event.tag = "NavbarIcon" -> set_icon(self, event.f0, event.f1)
    [] OTHER -> self

\* RootTui::enent_handle
RootTui_enent_handle(self, event) ==
  CASE event.tag \in {"Playback", "Volumei", "PlaybackProgress", "PlaybackMode", "Artist", "Track"} ->
         LET handler(w) == PlayerTui_enent_handle(w, event)
         IN  delegate_to_widget(self, "PlayerTui", handler)
    [] event.tag \in {"Navbar", "NavbarIcon"} ->
         LET handler(w) == NavbarTui_event_handle(w, event)
         IN  delegate_to_widget(self, "NavbarTui", handler)

\* RootTui::toggle_all_border
toggle_all_border(self) ==
  LET s0 == toggle_border(self)
      toggle(w) == toggle_border(w)
      s1 == delegate_to_widget(s0, "PlayerTui", toggle)
  IN  delegate_to_widget(s1, "ProgressTui", toggle)

(***************************************************************************)
(* The inputs the operations are driven with.                              *)
(***************************************************************************)
Deltas == {-10, 10}
DurationPairs == {<<125, 245>>}
Texts == {"Not Artist", "X"}
Directions == {"Left", "Right"}

\* TuiEnent, with the two navbar variants that root.rs and navbar.rs match on
TuiEnents ==
  {[tag |-> "Playback"], [tag |-> "PlaybackMode"]}
    \cup {[tag |-> "Volumei", f0 |-> d] : d \in Deltas}
    \cup {[tag |-> "PlaybackProgress", f0 |-> p[1], f1 |-> p[2]] : p \in DurationPairs}
    \cup {[tag |-> "Artist", f0 |-> s] : s \in Texts}
    \cup {[tag |-> "Track", f0 |-> s] : s \in Texts}
    \cup {[tag |-> "Navbar", f0 |-> d] : d \in Directions}
    \cup {[tag |-> "NavbarIcon", f0 |-> ">>", f1 |-> "*"]}

WidgetTypes ==
  {"PlaybackTui", "TrackTui", "VolumeTui", "PlaybackProgressTui", "ArtistTui",
   "PlaybackModeTui", "PlayerTui", "NavbarTui", "ProgressTui"}

\* the leaf widget of the given type inside the PlayerTui of the tree, if any
Leaf(root, T) ==
  LET p == get_widget(root.widgets, "PlayerTui")
  IN  IF p = 0 THEN None
      ELSE LET i == get_widget(root.widgets[p].widgets, T)
           IN  IF i = 0 THEN None ELSE Some(root.widgets[p].widgets[i])

\* the tree with handler applied to that leaf
OnLeaf(root, T, handler(_)) ==
  LET onPlayer(p) == delegate_to_widget(p, T, handler)
  IN  delegate_to_widget(root, "PlayerTui", onPlayer)

KeyIdle == [stage |-> "idle"]

(***************************************************************************)
(* App: the running flag, the redraw timer and the terminal.  Time is      *)
(* counted in units of 100 ms.  The timer is tokio's Interval: a period,   *)
(* the next deadline and what it does with deadlines it is late for.       *)
(***************************************************************************)
\* latest time the clock reaches in SpecRun
MaxClock == 4

\* interval(Duration::from_millis(100))
DefaultTuiInterval == 1

\* tokio::time::interval: the first tick is due at once, missed ticks burst
interval(period, now) ==
  [period |-> period, deadline |-> now, missed_tick_behavior |-> "Burst"]

\* Interval::set_missed_tick_behavior
set_missed_tick_behavior(i, behavior) == [i EXCEPT !.missed_tick_behavior = behavior]

\* MissedTickBehavior::next_timeout
next_timeout(i, now) ==
  CASE i.missed_tick_behavior = "Burst" -> i.deadline + i.period
    [] i.missed_tick_behavior = "Delay" -> now + i.period
    [] i.missed_tick_behavior = "Skip" ->
         now + i.period - ((now - i.deadline) % i.period)

\* Interval::tick, once the deadline is reached
tick(i, now) ==
  [i EXCEPT !.deadline = IF now > i.deadline THEN next_timeout(i, now)
                         ELSE i.deadline + i.period]

\* a timer left with tokio's default behaviour
set_tui_interval_default(duration, now) == interval(duration, now)

\* App::set_tui_interval
set_tui_interval(duration, now) ==
  LET new_interval == interval(duration, now)
  IN  set_missed_tick_behavior(new_interval, "Skip")

TerminalDefault == [inits |-> 0, restores |-> 0, raw |-> FALSE]

IterIdle == [todo |-> << >>, done |-> << >>, input |-> None]

\* App::default
AppDefault ==
  /\ running = FALSE
  /\ tui_interval = set_missed_tick_behavior(interval(DefaultTuiInterval, 0), "Skip")
  /\ clock = 0
  /\ terminal = TerminalDefault
  /\ iter = IterIdle

\* no configuration was loaded or written yet
ConfigIdle ==
  /\ env = [HOME |-> None, XDG_CONFIG_HOME |-> None]
  /\ fs = << >>
  /\ config = [call |-> "none"]

(***************************************************************************)
(* Spec: the tree App owns, from RootTui::default(), under any sequence of *)
(* events and widget operations.                                           *)
(***************************************************************************)
Init ==
  /\ tui = RootTuiDefault
  /\ keymap = << >>
  /\ pc = "run"
  /\ ret = None
  /\ rt = KeyIdle
  /\ AppDefault
  /\ ConfigIdle

EnentHandle(event) ==
  /\ pc = "run"
  /\ tui' = RootTui_enent_handle(tui, event)
  /\ UNCHANGED <<keymap, pc, ret, rt, appvars, cfgvars>>

ToggleAllBorder ==
  /\ pc = "run"
  /\ tui' = toggle_all_border(tui)
  /\ UNCHANGED <<keymap, pc, ret, rt, appvars, cfgvars>>

SetPlaybackState(state) ==
  /\ pc = "run"
  /\ LET handler(w) == set_playback_state(w, state) IN tui' = OnLeaf(tui, "PlaybackTui", handler)
  /\ UNCHANGED <<keymap, pc, ret, rt, appvars, cfgvars>>

Next ==
  \/ \E event \in TuiEnents : EnentHandle(event)
  \/ ToggleAllBorder
  \/ \E state \in PlaybackStates : SetPlaybackState(state)

Spec == Init /\ [][Next]_vars

(***************************************************************************)
(* SpecVolume: the VolumeTui of the tree under every i8 delta and every u8 *)
(* volume.                                                                 *)
(***************************************************************************)
SetVolume(volume) ==
  /\ pc = "run"
  /\ LET handler(w) == set_volume(w, volume) IN tui' = OnLeaf(tui, "VolumeTui", handler)
  /\ UNCHANGED <<keymap, pc, ret, rt, appvars, cfgvars>>

AdjustVolume(delta) == EnentHandle([tag |-> "Volumei", f0 |-> delta])

NextVolume ==
  \/ \E delta \in I8 : AdjustVolume(delta)
  \/ \E volume \in U8 : SetVolume(volume)

SpecVolume == Init /\ [][NextVolume]_vars

(***************************************************************************)
(* Readings of the tree used by the properties.                            *)
(***************************************************************************)
Volume == Leaf(tui, "VolumeTui").some.volume
PlaybackState == Leaf(tui, "PlaybackTui").some.state
Mode == Leaf(tui, "PlaybackModeTui").some.mode
ProgressReadout == Leaf(tui, "PlaybackProgressTui").some

\* C2: dispatching PlaybackProgress(E, T) sets progress to E and duration to T,
\* and the readout then shows format(E) " / " format(T): 125 s and 245 s show
\* "02:05 / 04:05".
C2_ProgressUpdateShowsElapsedThenTotal ==
  [][\A p \in DurationPairs :
       EnentHandle([tag |-> "PlaybackProgress", f0 |-> p[1], f1 |-> p[2]]) =>
         /\ ProgressReadout'.progress = p[1]
         /\ ProgressReadout'.duration = p[2]
         /\ (p = <<125, 245>> =>
               PlaybackProgressTui_render(ProgressReadout') =
                 <<"U+E641", " ", "0", "2", ":", "0", "5", " ", "/", " ", "0", "4", ":", "0", "5">>)
    ]_vars

\* C3: the volume stays within 0..100 under every set_volume(u8) and
\* adjust_volume(i8), and adjust_volume(d) yields min(100, max(0, volume + d))
\* from every volume reached.
C3_VolumeClamped ==
  LET w == Leaf(tui, "VolumeTui").some
  IN  /\ w.volume \in 0..100
      /\ \A d \in I8 : adjust_volume(w, d).volume = Min(100, Max(0, w.volume + d))
      /\ \A v \in U8 : set_volume(w, v).volume = Min(100, v)

\* C3 witness: the volume was clamped at the bottom (only an adjust below 0 or
\* set_volume(0) leaves it there, the default being 50).
C3_Witness == Volume = 0

\* C4: toggle_state takes Playing to Paused, Paused to Playing and Stopped to
\* Playing; two toggles from Playing or Paused come back, and from Stopped the
\* states alternate Playing, Paused, Playing.
C4_PlaybackToggleTwoCycle ==
  [][LET w == Leaf(tui, "PlaybackTui").some
         t1 == toggle_state(w)
         t2 == toggle_state(t1)
         t3 == toggle_state(t2)
     IN  /\ EnentHandle([tag |-> "Playback"]) =>
               /\ PlaybackState = "Playing" => PlaybackState' = "Paused"
               /\ PlaybackState = "Paused" => PlaybackState' = "Playing"
               /\ PlaybackState = "Stopped" => PlaybackState' = "Playing"
         /\ w.state \in {"Playing", "Paused"} => t2.state = w.state /\ t1.state # w.state
         /\ w.state = "Stopped" => <<t1.state, t2.state, t3.state>> = <<"Playing", "Paused", "Playing">>
    ]_vars

\* C4 witness: the playback widget is Paused after events were dispatched (the
\* mode has moved on as well), which a toggle from Playing produces.
C4_Witness == PlaybackState = "Paused" /\ Mode = "Random"

ModeIndex(m) == CHOOSE i \in 1..4 : PlaybackModeVARIANTS[i] = m

\* C5: toggle_mode steps Repeat, Random, Consume, Single, Repeat; from every
\* mode four toggles come back to it and one, two or three do not.
C5_ModeCycleOfFour ==
  [][LET w == Leaf(tui, "PlaybackModeTui").some
         t1 == toggle_mode(w)
         t2 == toggle_mode(t1)
         t3 == toggle_mode(t2)
         t4 == toggle_mode(t3)
     IN  /\ EnentHandle([tag |-> "PlaybackMode"]) =>
               Mode' = PlaybackModeVARIANTS[(ModeIndex(Mode) % 4) + 1]
         /\ t4.mode = w.mode
         /\ w.mode \notin {t1.mode, t2.mode, t3.mode}
    ]_vars

\* C5 witness: Single is the current mode, which only three toggles from the
\* default Repeat reach.
C5_Witness == Mode = "Single"

\* C7: toggle_all_border toggles the root's own border and the border of every
\* child that exposes the Border capability.
C7_ToggleAllBorderReachesEveryBorderChild ==
  [][ToggleAllBorder =>
       /\ has_border(tui') # has_border(tui)
       /\ \A i \in 1..Len(tui.widgets) :
            as_border_mut(tui.widgets[i]) =>
              has_border(tui'.widgets[i]) # has_border(tui.widgets[i])
    ]_vars

(***************************************************************************)
(* SpecContainer: containers other than the default tree.  A root and its  *)
(* players hold any sequence of at most MaxWidgets children, duplicates    *)
(* and absences included; one operation is then run on it.                 *)
(***************************************************************************)
\* Vec<Box<dyn RenderTui>> of bounded length over a pool of widgets
WidgetVecs(pool) == UNION {[1..n -> pool] : n \in 0..MaxWidgets}

PlayerChildren == {PlaybackTuiDefault, VolumeTuiDefault}

PlayerTuis ==
  {PlayerTuiDefault} \cup {[PlayerTuiDefault EXCEPT !.widgets = c] : c \in WidgetVecs(PlayerChildren)}

RootChildren == PlayerTuis \cup {NavbarTuiDefault, ProgressTuiDefault}

RootTuis == {[RootTuiDefault EXCEPT !.widgets = c] : c \in WidgetVecs(RootChildren)}

\* the children a lookup runs on: the root's own, or those of its first player
Container(where) ==
  IF where = "root" THEN tui.widgets
  ELSE tui.widgets[get_widget(tui.widgets, "PlayerTui")].widgets

InitContainer ==
  /\ tui \in RootTuis
  /\ keymap = << >>
  /\ pc = "ready"
  /\ ret = None
  /\ rt = KeyIdle
  /\ AppDefault
  /\ ConfigIdle

\* root.enent_handle(event) on the drawn tree
Dispatch(event) ==
  /\ pc = "ready"
  /\ tui' = RootTui_enent_handle(tui, event)
  /\ pc' = "dispatched"
  /\ UNCHANGED <<keymap, ret, rt, appvars, cfgvars>>

\* navbar.event_handle(event) on the first navbar of the tree, with any event
NavbarDispatch(event) ==
  /\ pc = "ready"
  /\ get_widget(tui.widgets, "NavbarTui") # 0
  /\ LET handler(w) == NavbarTui_event_handle(w, event)
     IN  tui' = delegate_to_widget(tui, "NavbarTui", handler)
  /\ pc' = "handled"
  /\ UNCHANGED <<keymap, ret, rt, appvars, cfgvars>>

\* get_widget_mut::<T>() and get_widget::<T>() on one container of the tree
Lookup(where, T) ==
  /\ pc = "ready"
  /\ where = "player" => get_widget(tui.widgets, "PlayerTui") # 0
  /\ ret' = [where |-> where, T |-> T,
             mut |-> get_widget_mut(Container(where), T),
             ref |-> get_widget(Container(where), T)]
  /\ pc' = "looked"
  /\ UNCHANGED <<tui, keymap, rt, appvars, cfgvars>>

NextContainer ==
  \/ \E event \in TuiEnents : Dispatch(event)
  \/ \E event \in TuiEnents : NavbarDispatch(event)
  \/ \E where \in {"root", "player"}, T \in WidgetTypes : Lookup(where, T)

SpecContainer == InitContainer /\ [][NextContainer]_vars

\* the positions of the children of type T
Matches(widgets, T) == {i \in 1..Len(widgets) : widgets[i].type = T}

\* C6: a lookup returns the first child of type T in insertion order, absent
\* (0) when there is none, never a later duplicate, and the read-only and the
\* mutable lookup select the same child.
C6_LookupReturnsFirstMatch ==
  pc = "looked" =>
    LET S == Matches(Container(ret.where), ret.T)
    IN  /\ ret.ref = ret.mut
        /\ S = {} => ret.mut = 0
        /\ S # {} => ret.mut \in S /\ \A j \in S : ret.mut <= j

\* C6 witness: a container with two children of the looked-up type, the first
\* of which was returned.
C6_Witness ==
  /\ pc = "looked"
  /\ Cardinality(Matches(Container(ret.where), ret.T)) = 2
  /\ ret.ref = 1

\* the widget type an event is routed to inside PlayerTui
LeafTarget(tag) ==
  CASE tag = "Playback" -> "PlaybackTui"
    [] tag = "Volumei" -> "VolumeTui"
    [] tag = "PlaybackProgress" -> "PlaybackProgressTui"
    [] tag = "PlaybackMode" -> "PlaybackModeTui"
    [] tag = "Artist" -> "ArtistTui"
    [] tag = "Track" -> "TrackTui"

\* the event finds no widget to act on: its container holds no child of the
\* target type
Miss(event) ==
  IF event.tag \in {"Navbar", "NavbarIcon"}
  THEN Matches(tui.widgets, "NavbarTui") = {}
  ELSE \/ Matches(tui.widgets, "PlayerTui") = {}
       \/ Matches(Container("player"), LeafTarget(event.tag)) = {}

\* C8: an event whose target type is absent from its container, or whose
\* variant the handler has no arm for, returns normally and leaves every widget
\* of the tree as it was.
C8_DispatchMissIsNoOp ==
  [][/\ \A event \in TuiEnents :
          Dispatch(event) /\ Miss(event) => tui' = tui /\ pc' = "dispatched"
     /\ \A event \in TuiEnents :
          NavbarDispatch(event) /\ event.tag \notin {"Navbar", "NavbarIcon"} =>
            tui' = tui /\ pc' = "handled"
    ]_vars

\* C8 witness: an event was dispatched on a root that has a navbar and a player
\* with no children, so every player event missed.
C8_Witness ==
  /\ pc = "dispatched"
  /\ Matches(tui.widgets, "NavbarTui") # {}
  /\ Matches(tui.widgets, "PlayerTui") # {}
  /\ Container("player") = << >>

(***************************************************************************)
(* EventHandler: the key map and the translation of terminal events.       *)
(* A KeyCode is a record (kind, c, n): c is the character of Char, n the   *)
(* number of F; KeyModifiers is a set of flags.                            *)
(***************************************************************************)
Char(c) == [kind |-> "Char", c |-> c, n |-> 0]
Named(kind) == [kind |-> kind, c |-> "", n |-> 0]
F(n) == [kind |-> "F", c |-> "", n |-> n]

KeyModifiersNONE == {}
CONTROL == "CONTROL"
ALT == "ALT"
SHIFT == "SHIFT"

\* EventHandler::default_keybindings
default_keybindings ==
  LET NONE == KeyModifiersNONE
  IN  (<<Char("q"), NONE>> :> "Quit")
   @@ (<<Char("p"), NONE>> :> "TogglePlay")
   @@ (<<Char("+"), NONE>> :> "VolumeIncrease")
   @@ (<<Char("-"), NONE>> :> "VolumeDecrease")
   @@ (<<Char("l"), NONE>> :> "ProgressIncrease")
   @@ (<<Char("h"), NONE>> :> "ProgressDecrease")
   @@ (<<Char("j"), NONE>> :> "PickerNext")
   @@ (<<Char("k"), NONE>> :> "PickerPrev")
   @@ (<<Char("m"), NONE>> :> "SwitchMode")
   @@ (<<Char("]"), NONE>> :> "NextTrack")
   @@ (<<Char("["), NONE>> :> "PrevTrack")
   @@ (<<Char("L"), NONE>> :> "NavbarNext")
   @@ (<<Char("H"), NONE>> :> "NavbarPrev")
   @@ (<<Named("Enter"), NONE>> :> "PlaySelected")

\* an extend that keeps the value of a key already present (entry().or_insert)
extend_keep(map, key_bindings) ==
  [k \in DOMAIN map \cup DOMAIN key_bindings |->
     IF k \in DOMAIN map THEN map[k] ELSE key_bindings[k]]

\* HashMap::extend: every pair of the batch is inserted, replacing the value of
\* a key already present
extend(map, key_bindings) ==
  [k \in DOMAIN map \cup DOMAIN key_bindings |->
     IF k \in DOMAIN key_bindings THEN key_bindings[k] ELSE map[k]]

\* EventHandler::add_keybindings
add_keybindings(map, key_bindings) == extend(map, key_bindings)

\* a handle_event that looks every key event up, whatever its kind
handle_event_any_kind(map, event) ==
  IF event.type = "Key"
  THEN IF <<event.code, event.modifiers>> \in DOMAIN map
       THEN map[<<event.code, event.modifiers>>]
       ELSE "NoOp"
  ELSE "NoOp"

\* EventHandler::handle_event
handle_event(map, event) ==
  IF event.type = "Key" /\ event.kind = "Press"
  THEN IF <<event.code, event.modifiers>> \in DOMAIN map
       THEN map[<<event.code, event.modifiers>>]
       ELSE "NoOp"
  ELSE "NoOp"

(***************************************************************************)
(* SpecKeymap: the default key map under batches of overrides and terminal *)
(* events.                                                                 *)
(***************************************************************************)
BatchKeys == {<<Char("a"), {CONTROL}>>, <<Char("a"), KeyModifiersNONE>>, <<Char("q"), KeyModifiersNONE>>}
BatchStatuses == {"Quit", "NextTrack", "TogglePlay"}

\* the override batches: maps from some of BatchKeys to BatchStatuses
Batches == UNION {[D -> BatchStatuses] : D \in (SUBSET BatchKeys) \ {{}}}

KeyEventKinds == {"Press", "Release", "Repeat"}

Events ==
  {[type |-> "Key", code |-> k[1], modifiers |-> k[2], kind |-> kind] :
     k \in BatchKeys \cup {<<Named("Enter"), KeyModifiersNONE>>, <<Char("x"), KeyModifiersNONE>>},
     kind \in KeyEventKinds}
    \cup {[type |-> "Resize"]}

InitKeymap ==
  /\ tui = RootTuiDefault
  /\ keymap = default_keybindings
  /\ pc = "run"
  /\ ret = None
  /\ rt = KeyIdle
  /\ AppDefault
  /\ ConfigIdle

AddKeybindings(key_bindings) ==
  /\ pc = "run"
  /\ keymap' = add_keybindings(keymap, key_bindings)
  /\ UNCHANGED <<tui, pc, ret, rt, appvars, cfgvars>>

HandleEvent(event) ==
  /\ pc = "run"
  /\ ret' = Some(handle_event(keymap, event))
  /\ UNCHANGED <<tui, keymap, pc, rt, appvars, cfgvars>>

NextKeymap ==
  \/ \E key_bindings \in Batches : AddKeybindings(key_bindings)
  \/ \E event \in Events : HandleEvent(event)

SpecKeymap == InitKeymap /\ [][NextKeymap]_vars

Press(k) == [type |-> "Key", code |-> k[1], modifiers |-> k[2], kind |-> "Press"]

\* C1: after a batch is merged, every status the batch targets is reachable
\* from exactly one key combination of the map, the one the batch supplies, and
\* every older combination bound to that status resolves to NoOp.  (Batches
\* that bind one status to two keys are left aside: no map satisfies the claim
\* for them.)
C1_OverrideIsValueExclusive ==
  [][\A key_bindings \in Batches :
       (/\ AddKeybindings(key_bindings)
        /\ \A k1, k2 \in DOMAIN key_bindings :
             key_bindings[k1] = key_bindings[k2] => k1 = k2)
       => \A k \in DOMAIN key_bindings :
            /\ {j \in DOMAIN keymap' : keymap'[j] = key_bindings[k]} = {k}
            /\ handle_event(keymap', Press(k)) = key_bindings[k]
            /\ \A old \in DOMAIN keymap :
                 keymap[old] = key_bindings[k] /\ old # k =>
                   handle_event(keymap', Press(old)) = "NoOp"
    ]_vars

(***************************************************************************)
(* lazy-config: key-combination strings.  A string is a sequence of        *)
(* characters; a character outside ASCII is written by its code point and  *)
(* takes two bytes in UTF-8.                                               *)
(***************************************************************************)
UpperCase == <<"A", "B", "C", "D", "E", "F", "G", "H", "I", "J", "K", "L", "M",
               "N", "O", "P", "Q", "R", "S", "T", "U", "V", "W", "X", "Y", "Z">>
LowerCase == <<"a", "b", "c", "d", "e", "f", "g", "h", "i", "j", "k", "l", "m",
               "n", "o", "p", "q", "r", "s", "t", "u", "v", "w", "x", "y", "z">>

\* char::to_lowercase
char_to_lowercase(c) ==
  IF \E i \in 1..Len(UpperCase) : UpperCase[i] = c
  THEN LowerCase[CHOOSE i \in 1..Len(UpperCase) : UpperCase[i] = c]
  ELSE IF c = "U+00C9" THEN "U+00E9" ELSE c

\* str::to_lowercase
to_lowercase(s) == [i \in 1..Len(s) |-> char_to_lowercase(s[i])]

\* char::len_utf8
len_utf8(c) == IF c \in {"U+00C9", "U+00E9"} THEN 2 ELSE 1

\* str::len: the length in bytes
RECURSIVE str_len(_)
str_len(s) == IF s = << >> THEN 0 ELSE len_utf8(Head(s)) + str_len(Tail(s))

\* char::is_whitespace
is_whitespace(c) == c \in {" ", "\t"}

\* str::trim
RECURSIVE trim_start(_)
trim_start(s) == IF s # << >> /\ is_whitespace(Head(s)) THEN trim_start(Tail(s)) ELSE s

RECURSIVE trim_end(_)
trim_end(s) ==
  IF s # << >> /\ is_whitespace(s[Len(s)]) THEN trim_end(SubSeq(s, 1, Len(s) - 1)) ELSE s

trim(s) == trim_end(trim_start(s))

starts_with(s, c) == s # << >> /\ Head(s) = c
ends_with(s, c) == s # << >> /\ s[Len(s)] = c

\* str::rsplit_once: the parts before and after the last delimiter
rsplit_once(s, c) ==
  LET S == {i \in 1..Len(s) : s[i] = c}
  IN  IF S = {} THEN None
      ELSE LET i == CHOOSE i \in S : \A j \in S : j <= i
           IN  Some(<<SubSeq(s, 1, i - 1), SubSeq(s, i + 1, Len(s))>>)

\* str::split: the parts between the delimiters, empty ones included
RECURSIVE split(_, _)
split(s, c) ==
  LET S == {i \in 1..Len(s) : s[i] = c}
  IN  IF S = {} THEN <<s>>
      ELSE LET i == CHOOSE i \in S : \A j \in S : i <= j
           IN  <<SubSeq(s, 1, i - 1)>> \o split(SubSeq(s, i + 1, Len(s)), c)

\* value of a string of decimal digits
RECURSIVE digits_value(_)
digits_value(d) ==
  IF d = << >> THEN 0
  ELSE 10 * digits_value(SubSeq(d, 1, Len(d) - 1))
         + ((CHOOSE i \in 1..10 : Digits[i] = d[Len(d)]) - 1)

\* str::parse::<u8>: an optional plus sign, then digits, no more than 255
parse_u8(s) ==
  LET d == IF starts_with(s, "+") THEN Tail(s) ELSE s
  IN  IF d = << >> \/ \E i \in 1..Len(d) : \A k \in 1..10 : Digits[k] # d[i] THEN None
      ELSE IF digits_value(d) > 255 THEN None
      ELSE Some(digits_value(d))

\* a modifier loop that matches the segments as they are written
RECURSIVE parse_modifiers_exact(_, _)
parse_modifiers_exact(parts, modifiers) ==
  IF parts = << >> THEN Some(modifiers)
  ELSE LET modifier_part == Head(parts)
       IN  IF Head(parts) = << >> THEN parse_modifiers_exact(Tail(parts), modifiers)
           ELSE IF modifier_part \in {<<"c">>, <<"c", "t", "r", "l">>}
                THEN parse_modifiers_exact(Tail(parts), modifiers \cup {CONTROL})
           ELSE IF modifier_part \in {<<"a">>, <<"a", "l", "t">>}
                THEN parse_modifiers_exact(Tail(parts), modifiers \cup {ALT})
           ELSE IF modifier_part \in {<<"s">>, <<"s", "h", "i", "f", "t">>}
                THEN parse_modifiers_exact(Tail(parts), modifiers \cup {SHIFT})
           ELSE None

\* a modifier loop that skips a segment it does not know
RECURSIVE parse_modifiers_skip(_, _)
parse_modifiers_skip(parts, modifiers) ==
  IF parts = << >> THEN Some(modifiers)
  ELSE LET modifier_part == to_lowercase(Head(parts))
       IN  IF modifier_part \in {<<"c">>, <<"c", "t", "r", "l">>}
           THEN parse_modifiers_skip(Tail(parts), modifiers \cup {CONTROL})
           ELSE IF modifier_part \in {<<"a">>, <<"a", "l", "t">>}
                THEN parse_modifiers_skip(Tail(parts), modifiers \cup {ALT})
           ELSE IF modifier_part \in {<<"s">>, <<"s", "h", "i", "f", "t">>}
                THEN parse_modifiers_skip(Tail(parts), modifiers \cup {SHIFT})
           ELSE parse_modifiers_skip(Tail(parts), modifiers)

\* the modifier loop of parse_key_string: None at an unknown modifier
RECURSIVE parse_modifiers(_, _)
parse_modifiers(parts, modifiers) ==
  IF parts = << >> THEN Some(modifiers)
  ELSE LET modifier_part == to_lowercase(Head(parts))
       IN  IF Head(parts) = << >> THEN parse_modifiers(Tail(parts), modifiers)
           ELSE IF modifier_part \in {<<"c">>, <<"c", "t", "r", "l">>}
                THEN parse_modifiers(Tail(parts), modifiers \cup {CONTROL})
           ELSE IF modifier_part \in {<<"a">>, <<"a", "l", "t">>}
                THEN parse_modifiers(Tail(parts), modifiers \cup {ALT})
           ELSE IF modifier_part \in {<<"s">>, <<"s", "h", "i", "f", "t">>}
                THEN parse_modifiers(Tail(parts), modifiers \cup {SHIFT})
           ELSE None

\* the key match of parse_key_string
parse_key_part(key_part) ==
  CASE key_part = <<"e", "n", "t", "e", "r">> -> Some(Named("Enter"))
    [] key_part = <<"t", "a", "b">> -> Some(Named("Tab"))
    [] key_part = <<"b", "a", "c", "k", "s", "p", "a", "c", "e">> -> Some(Named("Backspace"))
    [] key_part \in {<<"e", "s", "c">>, <<"e", "s", "c", "a", "p", "e">>} -> Some(Named("Esc"))
    [] key_part = <<"l", "e", "f", "t">> -> Some(Named("Left"))
    [] key_part = <<"r", "i", "g", "h", "t">> -> Some(Named("Right"))
    [] key_part = <<"u", "p">> -> Some(Named("Up"))
    [] key_part = <<"d", "o", "w", "n">> -> Some(Named("Down"))
    [] key_part = <<"h", "o", "m", "e">> -> Some(Named("Home"))
    [] key_part = <<"e", "n", "d">> -> Some(Named("End"))
    [] key_part = <<"p", "a", "g", "e", "u", "p">> -> Some(Named("PageUp"))
    [] key_part = <<"p", "a", "g", "e", "d", "o", "w", "n">> -> Some(Named("PageDown"))
    [] key_part = <<"d", "e", "l", "e", "t", "e">> -> Some(Named("Delete"))
    [] key_part = <<"i", "n", "s", "e", "r", "t">> -> Some(Named("Insert"))
    [] OTHER ->
         IF starts_with(key_part, "f") /\ str_len(key_part) > 1
         THEN LET n == parse_u8(Tail(key_part))
              IN  IF IsSome(n)
                  THEN IF n.some \in 1..12 THEN Some(F(n.some)) ELSE None
                  ELSE None
         ELSE IF str_len(key_part) = 1 THEN Some(Char(Head(key_part)))
         ELSE None

\* a parser that does not lower-case the key part
parse_key_string_case(s) ==
  IF starts_with(s, "<") /\ ends_with(s, ">")
  THEN LET inner == SubSeq(s, 2, Len(s) - 1)
       IN  IF trim(inner) = << >> THEN None
           ELSE IF inner = <<"-">> THEN Some(<<Char("-"), KeyModifiersNONE>>)
           ELSE LET sp == rsplit_once(inner, "-")
                    mod_parts == IF IsSome(sp) THEN sp.some[1] ELSE << >>
                    key_part_str == IF IsSome(sp) THEN sp.some[2] ELSE inner
                IN  IF trim(key_part_str) = << >> THEN None
                    ELSE LET key_part == key_part_str
                             modifiers ==
                               IF mod_parts # << >>
                               THEN parse_modifiers(split(mod_parts, "-"), KeyModifiersNONE)
                               ELSE Some(KeyModifiersNONE)
                             key_code == parse_key_part(key_part)
                         IN  IF ~IsSome(modifiers) \/ ~IsSome(key_code) THEN None
                             ELSE Some(<<key_code.some, modifiers.some>>)
  ELSE IF str_len(s) = 1 THEN Some(<<Char(Head(s)), KeyModifiersNONE>>)
  ELSE None

\* parse_key_string
parse_key_string(s) ==
  IF starts_with(s, "<") /\ ends_with(s, ">")
  THEN LET inner == SubSeq(s, 2, Len(s) - 1)
       IN  IF trim(inner) = << >> THEN None
           ELSE IF inner = <<"-">> THEN Some(<<Char("-"), KeyModifiersNONE>>)
           ELSE LET sp == rsplit_once(inner, "-")
                    mod_parts == IF IsSome(sp) THEN sp.some[1] ELSE << >>
                    key_part_str == IF IsSome(sp) THEN sp.some[2] ELSE inner
                IN  IF trim(key_part_str) = << >> THEN None
                    ELSE LET key_part == to_lowercase(key_part_str)
                             modifiers ==
                               IF mod_parts # << >>
                               THEN parse_modifiers(split(mod_parts, "-"), KeyModifiersNONE)
                               ELSE Some(KeyModifiersNONE)
                             key_code == parse_key_part(key_part)
                         IN  IF ~IsSome(modifiers) \/ ~IsSome(key_code) THEN None
                             ELSE Some(<<key_code.some, modifiers.some>>)
  ELSE IF str_len(s) = 1 THEN Some(<<Char(Head(s)), KeyModifiersNONE>>)
  ELSE None

\* [&str]::join
RECURSIVE join(_, _)
join(parts, sep) ==
  IF parts = << >> THEN << >>
  ELSE IF Len(parts) = 1 THEN parts[1]
  ELSE parts[1] \o sep \o join(Tail(parts), sep)

\* format_key_string
format_key_string(code, modifiers) ==
  IF modifiers = KeyModifiersNONE /\ code.kind = "Char" THEN <<code.c>>
  ELSE LET parts0 == IF CONTROL \in modifiers THEN <<(<<"c">>)>> ELSE << >>
           parts1 == IF ALT \in modifiers THEN Append(parts0, <<"a">>) ELSE parts0
           parts2 == IF SHIFT \in modifiers THEN Append(parts1, <<"s">>) ELSE parts1
           key_part_str ==
             CASE code.kind = "Char" -> <<char_to_lowercase(code.c)>>
               [] code.kind = "Enter" -> <<"e", "n", "t", "e", "r">>
               [] code.kind = "Tab" -> <<"t", "a", "b">>
               [] code.kind = "Backspace" -> <<"b", "a", "c", "k", "s", "p", "a", "c", "e">>
               [] code.kind = "Esc" -> <<"e", "s", "c">>
               [] code.kind = "Left" -> <<"l", "e", "f", "t">>
               [] code.kind = "Right" -> <<"r", "i", "g", "h", "t">>
               [] code.kind = "Up" -> <<"u", "p">>
               [] code.kind = "Down" -> <<"d", "o", "w", "n">>
               [] code.kind = "Home" -> <<"h", "o", "m", "e">>
               [] code.kind = "End" -> <<"e", "n", "d">>
               [] code.kind = "PageUp" -> <<"p", "a", "g", "e", "u", "p">>
               [] code.kind = "PageDown" -> <<"p", "a", "g", "e", "d", "o", "w", "n">>
               [] code.kind = "Delete" -> <<"d", "e", "l", "e", "t", "e">>
               [] code.kind = "Insert" -> <<"i", "n", "s", "e", "r", "t">>
               [] code.kind = "F" -> <<"f">> \o ToDecimal(code.n)
               [] OTHER -> <<"u", "n", "k", "n", "o", "w", "n">>
           parts == Append(parts2, key_part_str)
       IN  <<"<">> \o join(parts, <<"-">>) \o <<">">>

(***************************************************************************)
(* SpecKey: one key string, or one key combination of a key map, taken     *)
(* through parse_key_string and format_key_string.                         *)
(***************************************************************************)
\* most modifier segments of a drawn token
MaxMods == 2
\* longest drawn free-form string, brackets not counted
MaxRawLen == 3

ModTokens ==
  {<<"c">>, <<"C", "t", "r", "l">>, <<"a">>, <<"A", "L", "T">>, <<"s">>,
   <<"s", "h", "i", "f", "t">>, <<"x">>, << >>,
   <<"e", "n", "t", "e", "r">>}

KeyTokens ==
  {<<"a">>, <<"A">>, <<"-">>, <<" ">>, << >>, <<"1">>, <<"f">>, <<"a", "b">>,
   <<"e", "n", "t", "e", "r">>, <<"E", "n", "t", "e", "r">>, <<"T", "A", "B">>,
   <<"b", "a", "c", "k", "s", "p", "a", "c", "e">>, <<"e", "s", "c">>,
   <<"E", "s", "c", "a", "p", "e">>, <<"l", "e", "f", "t">>,
   <<"r", "i", "g", "h", "t">>, <<"u", "p">>, <<"d", "o", "w", "n">>,
   <<"h", "o", "m", "e">>, <<"e", "n", "d">>, <<"p", "a", "g", "e", "u", "p">>,
   <<"P", "a", "g", "e", "D", "o", "w", "n">>, <<"d", "e", "l", "e", "t", "e">>,
   <<"i", "n", "s", "e", "r", "t">>, <<"f", "1">>, <<"F", "5">>, <<"f", "1", "2">>,
   <<"f", "1", "3">>, <<"f", "0">>, <<"f", "+", "1">>, <<"f", "0", "1">>,
   <<"f", "2", "5", "6">>, <<"f", "1", "x">>, <<"U+00E9">>, <<"U+00C9">>,
   <<"f", "U+00E9">>}

RawAlphabet == {"<", ">", "-", "c", "A", "f", "1", " "}

RawStrings == UNION {[1..n -> RawAlphabet] : n \in 0..MaxRawLen}

\* "<" modifier "-" ... "-" key ">" for every choice of segments
Tokens ==
  {<<"<">> \o join(m \o <<k>>, <<"-">>) \o <<">">> :
     m \in UNION {[1..n -> ModTokens] : n \in 0..MaxMods}, k \in KeyTokens}

KeyStrings ==
  Tokens \cup RawStrings \cup {<<"<">> \o s \o <<">">> : s \in RawStrings}
    \cup {<<"U+00E9">>, <<"q">>, <<"L">>}

\* the characters a terminal reports in KeyCode::Char
KeyChars == {"a", "A", "q", "-", "+", "<", ">", " ", "1", "U+00E9"}

\* the keys the key-string grammar names
GrammarKeys ==
  {Char(c) : c \in KeyChars}
    \cup {Named(k) : k \in {"Enter", "Tab", "Backspace", "Esc", "Left", "Right", "Up", "Down",
                            "Home", "End", "PageUp", "PageDown", "Delete", "Insert"}}
    \cup {F(n) : n \in 1..12}

KeyCombinations == GrammarKeys \X SUBSET {CONTROL, ALT, SHIFT}

\* either a configured string (Keymaps.on) waits to be parsed, or a combination
\* of a key map waits to be formatted
InitKey ==
  /\ tui = RootTuiDefault
  /\ keymap = << >>
  /\ pc = "run"
  /\ ret = None
  /\ AppDefault
  /\ ConfigIdle
  /\ \/ \E s \in KeyStrings : rt = [stage |-> "string", on |-> s]
     \/ \E k \in KeyCombinations : rt = [stage |-> "combination", key |-> k]

\* From<&Keymaps>: parse_key_string(&keymap_config.on)
ParseOn ==
  /\ rt.stage = "string"
  /\ rt' = [stage |-> "parsed", on |-> rt.on, key |-> parse_key_string(rt.on)]
  /\ UNCHANGED <<tui, keymap, pc, ret, appvars, cfgvars>>

\* From<HashMap>: format_key_string(code, modifiers) of a parsed combination
FormatParsed ==
  /\ rt.stage = "parsed"
  /\ IsSome(rt.key)
  /\ rt' = [stage |-> "formatted", from |-> "string", key |-> rt.key.some,
            on |-> format_key_string(rt.key.some[1], rt.key.some[2])]
  /\ UNCHANGED <<tui, keymap, pc, ret, appvars, cfgvars>>

\* From<HashMap>: format_key_string(code, modifiers) of a combination of a map
FormatCombination ==
  /\ rt.stage = "combination"
  /\ rt' = [stage |-> "formatted", from |-> "combination", key |-> rt.key,
            on |-> format_key_string(rt.key[1], rt.key[2])]
  /\ UNCHANGED <<tui, keymap, pc, ret, appvars, cfgvars>>

\* From<&Keymaps> again, on the formatted string
Reparse ==
  /\ rt.stage = "formatted"
  /\ rt' = [stage |-> "reparsed", from |-> rt.from, key |-> rt.key, on |-> rt.on,
            again |-> parse_key_string(rt.on)]
  /\ UNCHANGED <<tui, keymap, pc, ret, appvars, cfgvars>>

NextKey ==
  \/ ParseOn
  \/ FormatParsed
  \/ FormatCombination
  \/ Reparse

SpecKey == InitKey /\ [][NextKey]_vars

\* C9: the formatted form of a parsed string is accepted and parses to the same
\* combination; a bare character without modifiers is formatted as itself, and
\* every other combination in brackets with lower-cased text.
C9_FormatOfParsedRoundTrips ==
  rt.stage = "reparsed" /\ rt.from = "string" =>
    /\ rt.again = Some(rt.key)
    /\ IF rt.key[1].kind = "Char" /\ rt.key[2] = KeyModifiersNONE
       THEN rt.on = <<rt.key[1].c>>
       ELSE /\ Len(rt.on) >= 3
            /\ Head(rt.on) = "<"
            /\ rt.on[Len(rt.on)] = ">"
            /\ \A i \in 1..Len(rt.on) : \A j \in 1..Len(UpperCase) : rt.on[i] # UpperCase[j]

\* C9 witness: a string with two modifiers and an upper-case key was parsed,
\* formatted in canonical order and parsed again.
C9_Witness ==
  /\ rt.stage = "reparsed"
  /\ rt.from = "string"
  /\ rt.key = <<Char("a"), {CONTROL, SHIFT}>>
  /\ rt.on = <<"<", "c", "-", "s", "-", "a", ">">>

\* C10: for every key of the grammar with every set of modifiers, parsing the
\* formatted combination gives the combination back.
C10_ParseOfFormattedRoundTrips ==
  rt.stage = "reparsed" /\ rt.from = "combination" => rt.again = Some(rt.key)

\* a string that opens with "<" and closes with ">"
Bracketed(s) == Len(s) >= 2 /\ Head(s) = "<" /\ s[Len(s)] = ">"

\* the segments of a bracketed token: the text between the dashes
Segments(s) == split(SubSeq(s, 2, Len(s) - 1), "-")

KeySegment(s) == Segments(s)[Len(Segments(s))]

ModifierSegments(s) == SubSeq(Segments(s), 1, Len(Segments(s)) - 1)

Blank(x) == \A i \in 1..Len(x) : x[i] \in {" ", "\t"}

\* the six spellings of a modifier, in lower case
ModifierNames ==
  {<<"c">>, <<"c", "t", "r", "l">>, <<"a">>, <<"a", "l", "t">>, <<"s">>,
   <<"s", "h", "i", "f", "t">>}

\* "f" and a number that is not 1 to 12
FunctionKeyOutOfRange(x) ==
  /\ Len(x) >= 2
  /\ x[1] \in {"f", "F"}
  /\ \A i \in 2..Len(x) : \E k \in 1..10 : Digits[k] = x[i]
  /\ digits_value(Tail(x)) \notin 1..12

\* the malformed key strings: empty, unbracketed and longer than one character,
\* or bracketed with a blank key segment (the token "<->" apart, whose key is
\* the dash), a segment before the key that is no modifier, or a function key
\* out of range
Malformed(s) ==
  \/ s = << >>
  \/ ~Bracketed(s) /\ Len(s) > 1
  \/ /\ Bracketed(s)
     /\ \/ SubSeq(s, 2, Len(s) - 1) # <<"-">> /\ Blank(KeySegment(s))
        \/ \E i \in 1..Len(ModifierSegments(s)) :
             /\ ModifierSegments(s)[i] # << >>
             /\ to_lowercase(ModifierSegments(s)[i]) \notin ModifierNames
        \/ FunctionKeyOutOfRange(KeySegment(s))

NamedModifier(x) ==
  CASE to_lowercase(x) \in {<<"c">>, <<"c", "t", "r", "l">>} -> CONTROL
    [] to_lowercase(x) \in {<<"a">>, <<"a", "l", "t">>} -> ALT
    [] to_lowercase(x) \in {<<"s">>, <<"s", "h", "i", "f", "t">>} -> SHIFT

\* the set of modifiers the segments before the key name
NamedModifiers(s) ==
  {NamedModifier(ModifierSegments(s)[i]) :
     i \in {j \in 1..Len(ModifierSegments(s)) : ModifierSegments(s)[j] # << >>}}

\* a bracketed token whose segments before the key all name modifiers
ModifierToken(s) ==
  /\ Bracketed(s)
  /\ SubSeq(s, 2, Len(s) - 1) # <<"-">>
  /\ ~Blank(KeySegment(s))
  /\ \A i \in 1..Len(ModifierSegments(s)) :
       ModifierSegments(s)[i] # << >> => to_lowercase(ModifierSegments(s)[i]) \in ModifierNames

\* the modifiers in the order c, a, s, each followed by a dash
CanonicalModifiers(modifiers) ==
  (IF CONTROL \in modifiers THEN <<"c", "-">> ELSE << >>)
    \o (IF ALT \in modifiers THEN <<"a", "-">> ELSE << >>)
    \o (IF SHIFT \in modifiers THEN <<"s", "-">> ELSE << >>)

\* C12: the combination a token parses to depends only on the set of modifiers
\* its segments name (in any order, letter case and form) and on its key, and
\* a formatted combination carries its modifiers in the order c, a, s.
C12_ModifiersInsensitiveInCanonicalOut ==
  /\ rt.stage = "parsed" /\ ModifierToken(rt.on) =>
       LET key_code == parse_key_part(to_lowercase(KeySegment(rt.on)))
       IN  rt.key = IF IsSome(key_code) THEN Some(<<key_code.some, NamedModifiers(rt.on)>>)
                    ELSE None
  /\ rt.stage = "formatted" /\ ~(rt.key[1].kind = "Char" /\ rt.key[2] = KeyModifiersNONE) =>
       LET canonical == <<"<">> \o CanonicalModifiers(rt.key[2])
       IN  /\ Len(rt.on) > Len(canonical) + 1
           /\ SubSeq(rt.on, 1, Len(canonical)) = canonical
           /\ rt.key[1].kind = "Char" => Len(rt.on) = Len(canonical) + 2

\* C12 witness: "<shift-Ctrl-a>" was parsed to Control and Shift with the key a.
C12_Witness ==
  /\ rt.stage = "parsed"
  /\ rt.on = <<"<", "s", "h", "i", "f", "t", "-", "C", "t", "r", "l", "-", "a", ">">>
  /\ rt.key = Some(<<Char("a"), {CONTROL, SHIFT}>>)

\* the event is a press of a key combination the map binds
BoundPress(map, event) ==
  /\ event.type = "Key"
  /\ event.kind = "Press"
  /\ \E k \in DOMAIN map : k = <<event.code, event.modifiers>>

\* C13: handle_event returns the bound status for a press of a bound
\* combination and NoOp for every other event (release, repeat, unbound press,
\* non-key event), and leaves the key map as it was.
C13_OnlyBoundPressesResolve ==
  [][\A event \in Events :
       HandleEvent(event) =>
         /\ keymap' = keymap
         /\ BoundPress(keymap, event) =>
              ret' = Some(keymap[<<event.code, event.modifiers>>])
         /\ ~BoundPress(keymap, event) => ret' = Some("NoOp")
    ]_vars

\* C13 witness: an event resolved to TogglePlay, which only a press of a
\* combination bound by a merged batch gives (no drawn event presses p).
C13_Witness == ret = Some("TogglePlay")

\* C14: after add_keybindings(batch) every combination of the batch resolves to
\* the status the batch gives it, whatever it was bound to before, every other
\* combination resolves as before, and the map (a function of the combination,
\* so one status each) binds the old and the new combinations and no other.
C14_BatchReplacesSameCombination ==
  [][\A key_bindings \in Batches :
       AddKeybindings(key_bindings) =>
         /\ \A k \in DOMAIN key_bindings :
              handle_event(keymap', Press(k)) = key_bindings[k]
         /\ \A k \in DOMAIN keymap \ DOMAIN key_bindings :
              handle_event(keymap', Press(k)) = keymap[k]
         /\ DOMAIN keymap' = DOMAIN keymap \cup DOMAIN key_bindings
    ]_vars

\* C14 witness: q, bound to Quit by default, is now bound to NextTrack.
C14_Witness == keymap[<<Char("q"), KeyModifiersNONE>>] = "NextTrack"

(***************************************************************************)
(* SpecRun: App::run from App::default(), with the timer the caller may    *)
(* have installed first.  pc follows the body of run: idle, start, while,  *)
(* select, next_key_status, event_branch, tick, draw, restore, returned.   *)
(***************************************************************************)
Durations == {1, 2, 3}

\* what EventStream::next() yields: the end of the stream, an error, an event
Inputs ==
  {[kind |-> "end"], [kind |-> "err"]}
    \cup {[kind |-> "ok", event |-> Press(<<Char(c), KeyModifiersNONE>>)] : c \in {"q", "p", "+", "-", "x"}}
    \cup {[kind |-> "ok",
           event |-> [type |-> "Key", code |-> Char("q"), modifiers |-> KeyModifiersNONE,
                      kind |-> "Release"]],
          [kind |-> "ok", event |-> [type |-> "Resize"]]}

\* a next_key_status that turns a stream error into Quit
next_key_status_quit_on_error(map, input) ==
  CASE input.kind = "end" -> None
    [] input.kind = "err" -> Some("Quit")
    [] input.kind = "ok" -> Some(handle_event(map, input.event))

\* EventHandler::next_key_status
next_key_status(map, input) ==
  CASE input.kind = "end" -> None
    [] input.kind = "err" -> None
    [] input.kind = "ok" -> Some(handle_event(map, input.event))

\* an event_handler whose Quit arm does nothing
event_handler_no_stop(self, key_status) ==
  CASE key_status = "TogglePlay" ->
         LET handler(w) == toggle_state(w)
         IN  [self EXCEPT !.tui = OnLeaf(@, "PlaybackTui", handler)]
    [] key_status = "VolumeIncrease" ->
         LET handler(w) == adjust_volume(w, 10)
         IN  [self EXCEPT !.tui = OnLeaf(@, "VolumeTui", handler)]
    [] key_status = "VolumeDecrease" ->
         LET handler(w) == adjust_volume(w, -10)
         IN  [self EXCEPT !.tui = OnLeaf(@, "VolumeTui", handler)]
    [] OTHER -> self

\* App::event_handler, on the fields of App it touches
event_handler(self, key_status) ==
  CASE key_status = "Quit" -> [self EXCEPT !.running = FALSE]
    [] key_status = "TogglePlay" ->
         LET handler(w) == toggle_state(w)
         IN  [self EXCEPT !.tui = OnLeaf(@, "PlaybackTui", handler)]
    [] key_status = "VolumeIncrease" ->
         LET handler(w) == adjust_volume(w, 10)
         IN  [self EXCEPT !.tui = OnLeaf(@, "VolumeTui", handler)]
    [] key_status = "VolumeDecrease" ->
         LET handler(w) == adjust_volume(w, -10)
         IN  [self EXCEPT !.tui = OnLeaf(@, "VolumeTui", handler)]
    [] OTHER -> self

\* a select that runs the event branch and then the tick branch (join!)
select_join(ready) ==
  IF "tick" \in ready THEN {<<"event", "tick">>} ELSE {<<"event">>}

\* tokio::select!: one of the branches that are ready
select(ready) == {<<branch>> : branch \in ready}

\* the branches that can complete now: an input can arrive at any time, the
\* tick when its deadline is reached
Ready == {"event"} \cup (IF clock >= tui_interval.deadline THEN {"tick"} ELSE {})

\* where a branch of the select starts
Entry(branch) == IF branch = "event" THEN "next_key_status" ELSE "tick"

\* the current branch is over: on to the next one selected, or to the loop test
BranchDone ==
  /\ iter' = [iter EXCEPT !.todo = Tail(@), !.done = Append(@, Head(iter.todo))]
  /\ pc' = IF Tail(iter.todo) = << >> THEN "while" ELSE Entry(Head(Tail(iter.todo)))

InitRun ==
  /\ tui = RootTuiDefault
  /\ keymap = default_keybindings
  /\ pc = "idle"
  /\ ret = None
  /\ rt = KeyIdle
  /\ AppDefault
  /\ ConfigIdle

SetTuiInterval(duration) ==
  /\ pc = "idle"
  /\ tui_interval' = set_tui_interval(duration, clock)
  /\ UNCHANGED <<tui, keymap, pc, ret, rt, running, clock, terminal, iter, cfgvars>>

\* let mut terminal = ratatui::init()
RatatuiInit ==
  /\ pc = "idle"
  /\ terminal' = [terminal EXCEPT !.inits = @ + 1, !.raw = TRUE]
  /\ pc' = "start"
  /\ UNCHANGED <<tui, keymap, ret, rt, running, tui_interval, clock, iter, cfgvars>>

\* self.start()
Start ==
  /\ pc = "start"
  /\ running' = TRUE
  /\ pc' = "while"
  /\ UNCHANGED <<tui, keymap, ret, rt, tui_interval, clock, terminal, iter, cfgvars>>

\* while self.running
WhileRunning ==
  /\ pc = "while"
  /\ pc' = IF running THEN "select" ELSE "restore"
  /\ iter' = IterIdle
  /\ UNCHANGED <<tui, keymap, ret, rt, running, tui_interval, clock, terminal, cfgvars>>

\* tokio::select!
Select(branches) ==
  /\ pc = "select"
  /\ branches \in select(Ready)
  /\ iter' = [iter EXCEPT !.todo = branches]
  /\ pc' = Entry(Head(branches))
  /\ UNCHANGED <<tui, keymap, ret, rt, running, tui_interval, clock, terminal, cfgvars>>

\* key_status = self.event.next_key_status()
NextKeyStatus(input) ==
  /\ pc = "next_key_status"
  /\ ret' = next_key_status(keymap, input)
  /\ iter' = [iter EXCEPT !.input = Some(input)]
  /\ pc' = "event_branch"
  /\ UNCHANGED <<tui, keymap, rt, running, tui_interval, clock, terminal, cfgvars>>

\* if let Some(key) = key_status { self.event_handler(key) }
EventBranch ==
  /\ pc = "event_branch"
  /\ LET self == IF IsSome(ret) THEN event_handler([running |-> running, tui |-> tui], ret.some)
                 ELSE [running |-> running, tui |-> tui]
     IN  running' = self.running /\ tui' = self.tui
  /\ BranchDone
  /\ UNCHANGED <<keymap, ret, rt, tui_interval, clock, terminal, cfgvars>>

\* _ = self.tui_interval.tick()
Tick ==
  /\ pc = "tick"
  /\ clock >= tui_interval.deadline
  /\ tui_interval' = tick(tui_interval, clock)
  /\ pc' = "draw"
  /\ UNCHANGED <<tui, keymap, ret, rt, running, clock, terminal, iter, cfgvars>>

\* a draw whose failure is dropped (let _ = terminal.draw(..))
Draw_ignore(result) ==
  /\ pc = "draw"
  /\ BranchDone
  /\ UNCHANGED <<tui, keymap, ret, rt, running, tui_interval, clock, terminal, cfgvars>>

\* terminal.draw(|f| self.tui.render(f, f.area()))?
Draw(result) ==
  /\ pc = "draw"
  /\ IF result = "Ok"
     THEN BranchDone /\ ret' = ret
     ELSE pc' = "returned" /\ ret' = [err |-> "draw"] /\ iter' = iter
  /\ UNCHANGED <<tui, keymap, rt, running, tui_interval, clock, terminal, cfgvars>>

\* ratatui::restore(); Ok(())
Restore ==
  /\ pc = "restore"
  /\ terminal' = [terminal EXCEPT !.restores = @ + 1, !.raw = FALSE]
  /\ ret' = [ok |-> TRUE]
  /\ pc' = "returned"
  /\ UNCHANGED <<tui, keymap, rt, running, tui_interval, clock, iter, cfgvars>>

\* time passes while the loop waits in select or a branch is at work
Elapse ==
  /\ pc \in {"select", "event_branch", "tick"}
  /\ clock < MaxClock
  /\ clock' = clock + 1
  /\ UNCHANGED <<tui, keymap, pc, ret, rt, running, tui_interval, terminal, iter, cfgvars>>

NextRun ==
  \/ \E duration \in Durations : SetTuiInterval(duration)
  \/ RatatuiInit
  \/ Start
  \/ WhileRunning
  \/ \E branches \in select(Ready) : Select(branches)
  \/ \E input \in Inputs : NextKeyStatus(input)
  \/ EventBranch
  \/ Tick
  \/ \E result \in {"Ok", "Err"} : Draw(result)
  \/ Restore
  \/ Elapse

SpecRun == InitRun /\ [][NextRun]_vars

\* the loop body is being executed
InBranch == pc \in {"next_key_status", "event_branch", "tick", "draw"}

\* C15: handling Quit clears the running flag and nothing else does; the
\* dispatch finishes, the flag is tested next, and after that test no render
\* and no dispatch happens; while the flag is set the loop is left only by a
\* render failure.
C15_QuitEndsTheLoop ==
  [][/\ EventBranch /\ ret = Some("Quit") => ~running' /\ pc' = "while"
     /\ running /\ ~running' => pc = "event_branch" /\ ret = Some("Quit")
     /\ pc = "while" /\ ~running => pc' = "restore"
     /\ pc = "restore" => pc' = "returned" /\ tui' = tui
     /\ pc' = "restore" => ~running
     /\ pc' = "returned" /\ running => pc = "draw" /\ "err" \in DOMAIN ret'
     /\ pc \in {"restore", "returned"} => ~InBranch'
    ]_vars

\* C15 witness: run returned Ok after a Quit was handled.
C15_Witness == pc = "returned" /\ ret = [ok |-> TRUE] /\ ~running

\* C16: an iteration services one branch, the event or the tick, never both and
\* never neither, and the branch is over before the loop test runs again.
C16_OneBranchPerIteration ==
  /\ InBranch => Len(iter.todo) = 1 /\ iter.done = << >>
  /\ pc \in {"next_key_status", "event_branch"} => iter.todo = <<"event">>
  /\ pc \in {"tick", "draw"} => iter.todo = <<"tick">>
  /\ pc = "while" /\ iter # IterIdle =>
       iter.todo = << >> /\ iter.done \in {<<"event">>, <<"tick">>}

\* C16 witness: an iteration that serviced the tick, and only the tick, is over.
C16_Witness ==
  /\ pc = "while"
  /\ iter.done = <<"tick">>
  /\ running

\* the ticks the timer would deliver at the present time, from deadline d on
RECURSIVE Pending(_)
Pending(d) ==
  IF d > clock THEN 0
  ELSE 1 + Pending(tick([tui_interval EXCEPT !.deadline = d], clock).deadline)

\* C17: however late the loop is, the timer holds at most one redraw: the
\* deadlines missed are dropped, for the default timer and for every timer
\* set_tui_interval installs.
C17_MissedTicksDropped == Pending(tui_interval.deadline) <= 1

\* C17 witness: the tick branch was selected two periods or more after the
\* deadline, on a timer installed by set_tui_interval.
C17_Witness ==
  /\ pc = "tick"
  /\ tui_interval.period = 2
  /\ clock >= tui_interval.deadline + 2 * tui_interval.period

\* C18: when reading the next event fails, next_key_status yields no key
\* status, the branch changes no widget and not the running flag, and the loop
\* goes on to its next iteration.
C18_StreamErrorIsNotFatal ==
  [][/\ \A input \in Inputs :
          NextKeyStatus(input) /\ input.kind = "err" =>
            ret' = None /\ tui' = tui /\ running' = running
     /\ EventBranch /\ iter.input = Some([kind |-> "err"]) =>
          tui' = tui /\ running' = running /\ pc' = "while"
     /\ pc = "while" /\ iter.input = Some([kind |-> "err"]) => pc' = "select"
    ]_vars

\* C18 witness: the iteration that met the stream error is over and the loop
\* is still running.
C18_Witness ==
  /\ pc = "while"
  /\ iter.input = Some([kind |-> "err"])
  /\ iter.done = <<"event">>
  /\ running

\* C19: a failed draw ends run with the error, and nothing is serviced after
\* it.
C19_RenderFailureIsFatal ==
  [][/\ Draw("Err") => pc' = "returned" /\ ret' = [err |-> "draw"]
     /\ pc = "returned" => pc' = "returned" /\ tui' = tui /\ iter' = iter
    ]_vars

\* C19 witness: run returned the draw error while the flag was still set.
C19_Witness == pc = "returned" /\ ret = [err |-> "draw"] /\ running

\* C20: run initialises the terminal once before the loop and has restored it
\* exactly once when it returns, by quit or by render failure.
C20_InitAndRestoreBracketTheLoop ==
  /\ pc \notin {"idle"} => terminal.inits = 1
  /\ pc \in {"idle", "start", "while", "select", "restore"} \/ InBranch => terminal.restores = 0
  /\ pc = "returned" => terminal.restores = 1 /\ ~terminal.raw

(***************************************************************************)
(* lazy-config: LazyConfig.  A path is the sequence of its components, an  *)
(* absolute path starting with the component "/".  A file is absent or     *)
(* holds a text; a text is NotToml (malformed) or the document the TOML    *)
(* text denotes: the optional list of key map records, the `run` of each   *)
(* record still a string.  `desc`, free text that no code reads, is left   *)
(* out of the records.                                                     *)
(***************************************************************************)
Ok(v) == [ok |-> v]
Err(e) == [err |-> e]
IsOk(r) == "ok" \in DOMAIN r

\* Path::join
Path_join(base, p) == IF p # << >> /\ p[1] = "/" THEN p ELSE base \o p

\* Path::starts_with: whole components are compared
Path_starts_with(p, c) == p # << >> /\ p[1] = c

\* Path::strip_prefix of the first component
Path_strip_prefix(p) == Tail(p)

\* env::var
env_var(e, name) == IF IsSome(e[name]) THEN Ok(e[name].some) ELSE Err("NotPresent")

\* LazyConfig::default().path
LazyConfig_default_path(e) ==
  LET config_path ==
        IF IsOk(env_var(e, "XDG_CONFIG_HOME")) THEN env_var(e, "XDG_CONFIG_HOME").ok
        ELSE IF IsOk(env_var(e, "HOME")) THEN Path_join(env_var(e, "HOME").ok, <<".config">>)
        ELSE <<".">>
  IN  Path_join(config_path, <<"lazymusic", "config.toml">>)

\* the names serde gives the variants of KeyStatus: the renames, and the
\* variant's own name where there is none
KeyStatusNames ==
     ("Quit" :> "quit") @@ ("TogglePlay" :> "toggle play")
  @@ ("VolumeIncrease" :> "volume increase") @@ ("VolumeDecrease" :> "volume decrease")
  @@ ("ProgressIncrease" :> "progress increase") @@ ("ProgressDecrease" :> "progress decrease")
  @@ ("PickerNext" :> "picker next") @@ ("PickerPrev" :> "picker prev")
  @@ ("SwitchMode" :> "switch mode") @@ ("NextTrack" :> "next track")
  @@ ("PrevTrack" :> "prev track") @@ ("PlaySelected" :> "play selected")
  @@ ("NavbarNext" :> "navbar next") @@ ("NavbarPrev" :> "navbar prev")
  @@ ("NoOp" :> "NoOp")

KeyStatuses == DOMAIN KeyStatusNames

\* Serialize for KeyStatus
serialize_KeyStatus(status) == KeyStatusNames[status]

\* Deserialize for KeyStatus: the string is the name of a variant, or an error
deserialize_KeyStatus(s) ==
  IF \E status \in KeyStatuses : KeyStatusNames[status] = s
  THEN Ok(CHOOSE status \in KeyStatuses : KeyStatusNames[status] = s)
  ELSE Err([unknown_variant |-> s])

\* Deserialize for KeymapConfig: `on` is any string, `run` a KeyStatus
deserialize_KeymapConfig(record) ==
  LET run == deserialize_KeyStatus(record.run)
  IN  IF IsOk(run)
      THEN Ok([on |-> record.on, run |-> run.ok, argument |-> record.argument])
      ELSE run

\* Deserialize for Vec<KeymapConfig>: the first record that fails, fails the list
RECURSIVE deserialize_Keymaps(_)
deserialize_Keymaps(records) ==
  IF records = << >> THEN Ok(<< >>)
  ELSE LET first == deserialize_KeymapConfig(Head(records))
           rest == deserialize_Keymaps(Tail(records))
       IN  IF ~IsOk(first) THEN first
           ELSE IF ~IsOk(rest) THEN rest
           ELSE Ok(<<first.ok>> \o rest.ok)

\* a text that is not a TOML document
NotToml == [malformed |-> TRUE]

\* toml::from_str::<LazyConfig>: `path` is skipped and takes its default
toml_from_str(contents) ==
  IF contents = NotToml THEN Err([toml |-> "syntax"])
  ELSE IF ~IsSome(contents.keymap) THEN Ok([path |-> << >>, keymap |-> None])
  ELSE LET configs == deserialize_Keymaps(contents.keymap.some)
       IN  IF IsOk(configs) THEN Ok([path |-> << >>, keymap |-> Some(configs.ok)])
           ELSE configs

\* toml::to_string_pretty(&LazyConfig): `path` is skipped
toml_to_string_pretty(c) ==
  [keymap |->
     IF IsSome(c.keymap)
     THEN Some([i \in 1..Len(c.keymap.some) |->
                  [on |-> c.keymap.some[i].on,
                   run |-> serialize_KeyStatus(c.keymap.some[i].run),
                   argument |-> c.keymap.some[i].argument]])
     ELSE None]

\* tokio::fs::read_to_string
read_to_string(files, p) ==
  IF p \in DOMAIN files /\ IsSome(files[p]) THEN Ok(files[p].some) ELSE Err("NotFound")

\* Path::exists
exists(files, p) == p \in DOMAIN files /\ IsSome(files[p])

\* the user path of LazyConfig::load: a leading ~ replaced by $HOME
user_path(path, e) ==
  IF ~IsSome(path) THEN None
  ELSE LET p == path.some
       IN  IF Path_starts_with(p, "~")
           THEN IF IsOk(env_var(e, "HOME"))
                THEN Some(Path_join(env_var(e, "HOME").ok, Path_strip_prefix(p)))
                ELSE Some(p)
           ELSE Some(p)

\* a load that reports the path it was asked for, whichever file it read
load_path_asked(path, e, files) ==
  LET default_path == LazyConfig_default_path(e)
      up == user_path(path, e)
      first == IF IsSome(up) THEN up.some ELSE default_path
      r1 == read_to_string(files, first)
      r2 == read_to_string(files, default_path)
      reads == IF IsSome(up) /\ ~IsOk(r1) THEN <<first, default_path>> ELSE <<first>>
      read == IF IsOk(r1) THEN r1 ELSE IF IsSome(up) THEN r2 ELSE r1
      parsed == IF IsOk(read) THEN toml_from_str(read.ok) ELSE read
  IN  [reads |-> reads,
       result |-> IF ~IsOk(read) THEN Err([io |-> read.err, names |-> reads])
                  ELSE IF ~IsOk(parsed) THEN Err([parse |-> parsed.err, names |-> << >>])
                  ELSE Ok([parsed.ok EXCEPT !.path = first])]

\* LazyConfig::load.  `reads` is the order of the files it asked the file
\* system for; an error carries the paths its message names.
load(path, e, files) ==
  LET default_path == LazyConfig_default_path(e)
      up == user_path(path, e)
      attempt ==
        IF IsSome(up)
        THEN LET p == up.some
                 r == read_to_string(files, p)
             IN  IF IsOk(r) THEN [reads |-> <<p>>, got |-> Ok(<<r.ok, p>>)]
                 ELSE LET fallback == read_to_string(files, default_path)
                      IN  [reads |-> <<p, default_path>>,
                           got |-> IF IsOk(fallback) THEN Ok(<<fallback.ok, default_path>>)
                                   ELSE Err([io |-> fallback.err, failed |-> r.err,
                                             names |-> <<p, default_path>>])]
        ELSE LET r == read_to_string(files, default_path)
             IN  [reads |-> <<default_path>>,
                  got |-> IF IsOk(r) THEN Ok(<<r.ok, default_path>>)
                          ELSE Err([io |-> r.err, names |-> <<default_path>>])]
  IN  [reads |-> attempt.reads,
       result |->
         IF ~IsOk(attempt.got) THEN attempt.got
         ELSE LET contents == attempt.got.ok[1]
                  final_path == attempt.got.ok[2]
                  parsed == toml_from_str(contents)
              IN  IF ~IsOk(parsed) THEN Err([parse |-> parsed.err, names |-> << >>])
                  ELSE Ok([parsed.ok EXCEPT !.path = final_path])]

\* the key map records write_default_if_not_exists puts in the default file
default_keymaps ==
  LET KeymapConfig(on, run, argument) == [on |-> on, run |-> run, argument |-> argument]
      Value(n) == Some([Value |-> n])
  IN  << KeymapConfig(<<"q">>, "Quit", None),
         KeymapConfig(<<"+">>, "VolumeIncrease", Value(10)),
         KeymapConfig(<<"-">>, "VolumeDecrease", Value(10)),
         KeymapConfig(<<"L">>, "NavbarNext", None),
         KeymapConfig(<<"H">>, "NavbarPrev", None),
         KeymapConfig(<<"j">>, "PickerNext", None),
         KeymapConfig(<<"k">>, "PickerPrev", None),
         KeymapConfig(<<"]">>, "NextTrack", None),
         KeymapConfig(<<"[">>, "PrevTrack", None),
         KeymapConfig(<<"m">>, "SwitchMode", None),
         KeymapConfig(<<"l">>, "ProgressIncrease", Value(10)),
         KeymapConfig(<<"h">>, "ProgressDecrease", Value(10)),
         KeymapConfig(<<"<", "e", "n", "t", "e", "r", ">">>, "PlaySelected", None),
         KeymapConfig(<<"p">>, "TogglePlay", None) >>

\* a default file that spells Enter without its brackets
write_default_bare_enter(e, files, outcome) ==
  LET path == LazyConfig_default_path(e)
      bare == [default_keymaps EXCEPT ![13].on = <<"e", "n", "t", "e", "r">>]
      toml_string == toml_to_string_pretty([path |-> path, keymap |-> Some(bare)])
  IN  IF exists(files, path) THEN [files |-> files, result |-> Ok(path)]
      ELSE IF outcome = "ok"
      THEN [files |-> [f \in DOMAIN files \cup {path} |->
                         IF f = path THEN Some(toml_string) ELSE files[f]],
            result |-> Ok(path)]
      ELSE [files |-> files, result |-> Err(outcome)]

\* LazyConfig::write_default_if_not_exists.  `outcome` is what the file
\* system answers to create_dir_all and write.
write_default_if_not_exists(e, files, outcome) ==
  LET path == LazyConfig_default_path(e)
      c == [path |-> path, keymap |-> Some(default_keymaps)]
      toml_string == toml_to_string_pretty(c)
  IN  IF exists(files, path) THEN [files |-> files, result |-> Ok(path)]
      ELSE IF outcome = "create_dir_all fails" THEN [files |-> files, result |-> Err(outcome)]
      ELSE IF outcome = "write fails" THEN [files |-> files, result |-> Err(outcome)]
      ELSE [files |-> [f \in DOMAIN files \cup {path} |->
                         IF f = path THEN Some(toml_string) ELSE files[f]],
            result |-> Ok(path)]

\* a conversion in which the first record of a combination wins
RECURSIVE Keymaps_into_first(_)
Keymaps_into_first(configs) ==
  IF configs = << >> THEN << >>
  ELSE LET rest == Keymaps_into_first(Tail(configs))
           key == parse_key_string(Head(configs).on)
       IN  IF ~IsSome(key) THEN rest
           ELSE [k \in DOMAIN rest \cup {key.some} |->
                   IF k = key.some THEN Head(configs).run ELSE rest[k]]

\* From<&Keymaps> for HashMap: filter_map over the records in order, then
\* collect, which inserts pair after pair
RECURSIVE Keymaps_into(_)
Keymaps_into(configs) ==
  IF configs = << >> THEN << >>
  ELSE LET front == Keymaps_into(SubSeq(configs, 1, Len(configs) - 1))
           last == configs[Len(configs)]
           key == parse_key_string(last.on)
       IN  IF ~IsSome(key) THEN front
           ELSE [k \in DOMAIN front \cup {key.some} |->
                   IF k = key.some THEN last.run ELSE front[k]]

(***************************************************************************)
(* SpecConfig: an environment and a file system, under loads of the        *)
(* configuration, writes of the default file and conversions of a loaded   *)
(* configuration into a key map.                                           *)
(***************************************************************************)
Envs ==
  [HOME : {None, Some(<<"/", "home", "u">>)},
   XDG_CONFIG_HOME : {None, Some(<<"/", "xdg">>)}]

ExplicitPaths ==
  {None, Some(<<"~", "my.toml">>), Some(<<"/", "etc", "lazymusic.toml">>)}

Documents ==
  { [keymap |-> None],
    [keymap |-> Some(<< [on |-> <<"q">>, run |-> "next track", argument |-> None],
                        [on |-> <<"i", "n", "v", "a", "l", "i", "d", "-", "k", "e", "y">>,
                         run |-> "toggle play", argument |-> None] >>)],
    [keymap |-> Some(<< [on |-> <<"q">>, run |-> "invalid command", argument |-> None] >>)] }

FileStates == {None, Some(NotToml)} \cup {Some(d) : d \in Documents}

Files(e) ==
  {LazyConfig_default_path(e)} \cup {user_path(p, e).some : p \in ExplicitPaths \ {None}}

WriteOutcomes == {"ok", "create_dir_all fails", "write fails"}

InitConfig ==
  /\ tui = RootTuiDefault
  /\ keymap = << >>
  /\ pc = "run"
  /\ ret = None
  /\ rt = KeyIdle
  /\ AppDefault
  /\ env \in Envs
  /\ fs \in [Files(env) -> FileStates]
  /\ config = [call |-> "none"]

Load(path) ==
  /\ pc = "run"
  /\ LET r == load(path, env, fs)
     IN  config' = [call |-> "load", path |-> path, reads |-> r.reads, result |-> r.result]
  /\ ret' = None
  /\ UNCHANGED <<tui, keymap, pc, rt, appvars, env, fs>>

WriteDefaultIfNotExists(outcome) ==
  /\ pc = "run"
  /\ LET r == write_default_if_not_exists(env, fs, outcome)
     IN  /\ fs' = r.files
         /\ config' = [call |-> "write_default_if_not_exists", result |-> r.result,
                        wrote |-> r.files # fs]
  /\ ret' = None
  /\ UNCHANGED <<tui, keymap, pc, rt, appvars, env>>

\* (&keymaps).into() on the key map records of the configuration at hand:
\* the one loaded last, or one built in place
IntoKeymap ==
  /\ pc = "run"
  /\ config.call \in {"load", "literal"}
  /\ IsOk(config.result)
  /\ IsSome(config.result.ok.keymap)
  /\ keymap' = Keymaps_into(config.result.ok.keymap.some)
  /\ ret' = Some("into")
  /\ UNCHANGED <<tui, pc, rt, appvars, cfgvars>>

NextConfig ==
  \/ \E path \in ExplicitPaths : Load(path)
  \/ \E outcome \in WriteOutcomes : WriteDefaultIfNotExists(outcome)
  \/ IntoKeymap

SpecConfig == InitConfig /\ [][NextConfig]_vars

\* the explicit path of the load done last, its leading ~ replaced by the
\* home directory the environment names
Expanded ==
  LET p == config.path.some
  IN  IF p[1] = "~" /\ IsSome(env.HOME) THEN env.HOME.some \o Tail(p) ELSE p

Readable(p) == p \in DOMAIN fs /\ fs[p] # None

WasRead(p) == \E i \in 1..Len(config.reads) : config.reads[i] = p

\* C21: LazyConfig::load reads the explicit path first, a leading ~ expanded
\* to the home directory; it reads the default path if and only if no
\* explicit path was given or the explicit path could not be read; when both
\* reads fail the error names both paths; a configuration that is returned
\* carries the path of the file that was read.
C21_ConfigResolutionOrder ==
  config.call = "load" =>
    LET default_path == LazyConfig_default_path(env)
        explicit == IsSome(config.path)
    IN  /\ explicit => config.reads[1] = Expanded
        /\ WasRead(default_path) <=> (~explicit \/ ~Readable(Expanded))
        /\ explicit /\ ~Readable(Expanded) /\ ~Readable(default_path)
             => /\ ~IsOk(config.result)
                /\ \E i, j \in 1..Len(config.result.err.names) :
                      /\ config.result.err.names[i] = Expanded
                      /\ config.result.err.names[j] = default_path
        /\ IsOk(config.result)
             => /\ config.result.ok.path = config.reads[Len(config.reads)]
                /\ Readable(config.result.ok.path)

\* a load of ~/my.toml with HOME set, where /home/u/my.toml cannot be read
\* and the default file can: the configuration carries the default path
C21_Witness ==
  /\ config.call = "load"
  /\ config.path = Some(<<"~", "my.toml">>)
  /\ config.reads = <<(<<"/", "home", "u", "my.toml">>), LazyConfig_default_path(env)>>
  /\ IsOk(config.result)
  /\ config.result.ok.path = LazyConfig_default_path(env)

\* the key map records of the configuration at hand
LoadedRecords ==
  IF config.call \in {"load", "literal"} /\ IsOk(config.result)
     /\ IsSome(config.result.ok.keymap)
  THEN config.result.ok.keymap.some
  ELSE << >>

\* C22: a key map record whose `on` string is not a key combination is
\* surfaced as a failure: no key map is built from a configuration holding
\* such a record, the record is neither dropped nor defaulted.
C22_InvalidKeyStringIsSurfaced ==
  [][keymap' # keymap =>
       \A i \in 1..Len(LoadedRecords) : IsSome(parse_key_string(LoadedRecords[i].on))]_vars

(***************************************************************************)
(* SpecKeymaps: a Keymaps value built in place, every list of at most      *)
(* MaxRecords records, converted into a key map.                           *)
(***************************************************************************)
MaxRecords == 3

RecordKeys ==
  { <<"q">>, <<"<", "q", ">">>, <<"<", "c", "-", "p", ">">>,
    <<"i", "n", "v", "a", "l", "i", "d", "-", "k", "e", "y">> }

RecordStatuses == {"Quit", "TogglePlay"}

Records == [on : RecordKeys, run : RecordStatuses, argument : {None}]

RECURSIVE RecordLists(_)
RecordLists(n) ==
  IF n = 0 THEN {<< >>}
  ELSE RecordLists(n - 1)
         \cup {Append(l, r) : l \in {x \in RecordLists(n - 1) : Len(x) = n - 1}, r \in Records}

InitKeymaps ==
  /\ tui = RootTuiDefault
  /\ keymap = << >>
  /\ pc = "run"
  /\ ret = None
  /\ rt = KeyIdle
  /\ AppDefault
  /\ env = [HOME |-> None, XDG_CONFIG_HOME |-> None]
  /\ fs = << >>
  /\ \E configs \in RecordLists(MaxRecords) :
       config = [call |-> "literal", result |-> Ok([path |-> << >>, keymap |-> Some(configs)])]

NextKeymaps == IntoKeymap

SpecKeymaps == InitKeymaps /\ [][NextKeymaps]_vars

\* the combination record i parses to
Parsed(i) == parse_key_string(LoadedRecords[i].on)

Parseable == {i \in 1..Len(LoadedRecords) : IsSome(Parsed(i))}

\* C23 as stated: the map is built without error from exactly the records
\* whose `on` parses, one entry per distinct combination, and each such
\* record's binding parse(on) -> run is in the map.
C23_EveryParsedRecordIsBound ==
  ret = Some("into") =>
    /\ DOMAIN keymap = {Parsed(i).some : i \in Parseable}
    /\ \A i \in Parseable : keymap[Parsed(i).some] = LoadedRecords[i].run

\* C23, amended: the map is built without error from exactly the records
\* whose `on` parses, one entry per distinct combination, bound to the `run`
\* of the last record that parses to that combination.
C23_LastParsedRecordIsBound ==
  ret = Some("into") =>
    /\ DOMAIN keymap = {Parsed(i).some : i \in Parseable}
    /\ \A i \in Parseable :
         (\A j \in Parseable : Parsed(j) = Parsed(i) => j <= i)
           => keymap[Parsed(i).some] = LoadedRecords[i].run

\* "q" bound to Quit, a record that does not parse, then "<q>" bound to
\* TogglePlay: one entry, q -> TogglePlay
C23_Witness ==
  /\ ret = Some("into")
  /\ Len(LoadedRecords) = 3
  /\ LoadedRecords[1].on = <<"q">> /\ LoadedRecords[1].run = "Quit"
  /\ ~IsSome(Parsed(2))
  /\ LoadedRecords[3].on = <<"<", "q", ">">> /\ LoadedRecords[3].run = "TogglePlay"
  /\ keymap = (<<Char("q"), KeyModifiersNONE>> :> "TogglePlay")

(***************************************************************************)
(* SpecRecord: one [[keymaps]] record of a TOML document, deserialized     *)
(* into a KeymapConfig.                                                    *)
(***************************************************************************)
RunStrings ==
  {KeyStatusNames[s] : s \in KeyStatuses}
    \cup {"no op", "noop", "invalid command", "volume decrease abc", "Quit", "QUIT",
          "quit ", "toggle  play", "toggle-play", ""}

Arguments == {None, Some([Value |-> 10]), Some([Enable |-> TRUE])}

RawRecords == [on : RecordKeys, run : RunStrings, argument : Arguments]

InitRecord ==
  /\ tui = RootTuiDefault
  /\ keymap = << >>
  /\ pc = "run"
  /\ ret = None
  /\ rt = KeyIdle
  /\ AppDefault
  /\ env = [HOME |-> None, XDG_CONFIG_HOME |-> None]
  /\ fs = << >>
  /\ \E record \in RawRecords : config = [call |-> "deserialize", record |-> record]

DeserializeKeymapConfig ==
  /\ pc = "run"
  /\ config.call = "deserialize"
  /\ ret = None
  /\ ret' = Some(deserialize_KeymapConfig(config.record))
  /\ UNCHANGED <<tui, keymap, pc, rt, appvars, cfgvars>>

NextRecord == DeserializeKeymapConfig

SpecRecord == InitRecord /\ [][NextRecord]_vars

\* the space-separated lower-case names of the fifteen statuses
LowerCaseNames ==
  {IF s = "NoOp" THEN "no op" ELSE KeyStatusNames[s] : s \in KeyStatuses}

\* C24: a `run` string that is not one of the fifteen lower-case
\* space-separated action names fails deserialization; it is mapped to no
\* Logical Key Status, NoOp included.
C24_UnknownRunFailsDeserialization ==
  config.call = "deserialize" /\ IsSome(ret) /\ config.record.run \notin LowerCaseNames
    => ~IsOk(ret.some)

(***************************************************************************)
(* SpecBorder: the Border facets of the tree, under set_border with any    *)
(* edge mask of BorderMasks and under toggle_border.  A toggle leaves in   *)
(* ret which widget it was called on and the mask it found.                *)
(***************************************************************************)
BorderMasks ==
  {BordersNONE, BordersALL, {"TOP"}, {"TOP", "BOTTOM"}, {"LEFT", "RIGHT"},
   {"TOP", "RIGHT", "BOTTOM"}}

\* the widgets of the tree that carry a Border facet
Bordered == {"RootTui", "PlayerTui", "NavbarTui", "ProgressTui"}

\* the widget of type T: the root itself or its first child of that type
WidgetOf(root, T) ==
  IF T = "RootTui" THEN root ELSE root.widgets[get_widget(root.widgets, T)]

SetBorder(T, border) ==
  /\ pc = "run"
  /\ LET set(w) == set_border(w, border)
     IN  tui' = IF T = "RootTui" THEN set(tui) ELSE delegate_to_widget(tui, T, set)
  /\ ret' = None
  /\ UNCHANGED <<keymap, pc, rt, appvars, cfgvars>>

ToggleBorder(T) ==
  /\ pc = "run"
  /\ LET toggle(w) == toggle_border(w)
     IN  tui' = IF T = "RootTui" THEN toggle(tui) ELSE delegate_to_widget(tui, T, toggle)
  /\ ret' = Some([toggled |-> T, from |-> WidgetOf(tui, T).border.border])
  /\ UNCHANGED <<keymap, pc, rt, appvars, cfgvars>>

NextBorder ==
  \/ \E T \in Bordered, border \in BorderMasks : SetBorder(T, border)
  \/ \E T \in Bordered : ToggleBorder(T)

SpecBorder == Init /\ [][NextBorder]_vars

\* C25: toggle_border sets all edges from no edges and no edges from any
\* other mask, partial masks included; after it the mask is none or all,
\* has_border is true exactly when the mask is not none, and a second
\* toggle restores a mask that was none or all.
C25_ToggleFlipsBetweenNoneAndAll ==
  [][\A T \in Bordered :
       ToggleBorder(T) =>
         LET old == WidgetOf(tui, T).border.border
             new == WidgetOf(tui', T).border.border
         IN  /\ old = BordersNONE => new = BordersALL
             /\ old # BordersNONE => new = BordersNONE
             /\ new \in {BordersNONE, BordersALL}
             /\ has_border(WidgetOf(tui', T)) <=> new # BordersNONE
             /\ old \in {BordersNONE, BordersALL}
                  => toggle_border(WidgetOf(tui', T)).border.border = old]_vars

\* ProgressTui toggled while it had the top edge alone: no edges now
C25_Witness ==
  /\ ret = Some([toggled |-> "ProgressTui", from |-> {"TOP"}])
  /\ WidgetOf(tui, "ProgressTui").border.border = BordersNONE

(***************************************************************************)
(* SpecFormat: format_duration applied to every whole number of seconds up *)
(* to MaxSeconds.                                                          *)
(***************************************************************************)
MaxSeconds == 6000

InitFormat ==
  /\ tui = RootTuiDefault
  /\ keymap = << >>
  /\ pc = "run"
  /\ ret = None
  /\ AppDefault
  /\ ConfigIdle
  /\ \E n \in 0..MaxSeconds : rt = [stage |-> "duration", duration |-> n]

FormatDuration ==
  /\ pc = "run"
  /\ rt.stage = "duration"
  /\ ret' = Some(format_duration(rt.duration))
  /\ rt' = [rt EXCEPT !.stage = "formatted"]
  /\ UNCHANGED <<tui, keymap, pc, appvars, cfgvars>>

NextFormat == FormatDuration

SpecFormat == InitFormat /\ [][NextFormat]_vars

IsDigits(s) == \A i \in 1..Len(s) : \E k \in 1..10 : Digits[k] = s[i]

\* C26: the text of n seconds is (n div 60) ":" (n mod 60), both numbers in
\* decimal and zero-padded to at least two digits, the seconds below 60 and
\* the minutes not wrapped at an hour (3661 s gives "61:01").
C26_FormatDurationIsMinutesAndSeconds ==
  rt.stage = "formatted" =>
    LET n == rt.duration
        parts == split(ret.some, ":")
    IN  /\ Len(parts) = 2
        /\ IsDigits(parts[1]) /\ IsDigits(parts[2])
        /\ Len(parts[1]) >= 2 /\ Len(parts[2]) = 2
        /\ Len(parts[1]) > 2 => parts[1][1] # "0"
        /\ digits_value(parts[1]) = n \div 60
        /\ digits_value(parts[2]) = n % 60
        /\ digits_value(parts[2]) < 60
        /\ n = 3661 => ret.some = <<"6", "1", ":", "0", "1">>

C26_Witness ==
  /\ rt.stage = "formatted"
  /\ rt.duration = 3661
  /\ ret = Some(<<"6", "1", ":", "0", "1">>)

(***************************************************************************)
(* VolumeTui: the icons it draws.  An icon is named by its code points.    *)
(***************************************************************************)
ICONS_BLOCK ==
  << "         ",
     "U+2581        ",
     "U+2581 U+2583      ",
     "U+2581 U+2583 U+2585    ",
     "U+2581 U+2583 U+2585 U+2587  ",
     "U+2581 U+2583 U+2585 U+2587 U+2588" >>

VOLUME_STATUS == <<"U+EEE8 ", "U+F027 ", "U+F028 ">>

\* usize::div_ceil
div_ceil(a, b) == (a + b - 1) \div b

\* a pick_icon that rounds the index down
pick_icon_floor(volume, icons) ==
  LET len == Len(icons)
      idx == Min((volume * (len - 1)) \div MAX_VOLUME, len - 1)
  IN  icons[idx + 1]

\* VolumeTui::pick_icon; icons[idx] of the zero-based slice is icons[idx + 1]
pick_icon(volume, icons) ==
  LET len == Len(icons)
      idx == Min(div_ceil(volume * (len - 1), MAX_VOLUME), len - 1)
  IN  icons[idx + 1]

(***************************************************************************)
(* SpecIcon: pick_icon applied to every u8 volume and both icon arrays.    *)
(***************************************************************************)
IconArrays == {ICONS_BLOCK, VOLUME_STATUS}

InitIcon ==
  /\ tui = RootTuiDefault
  /\ keymap = << >>
  /\ pc = "run"
  /\ ret = None
  /\ AppDefault
  /\ ConfigIdle
  /\ \E volume \in U8, icons \in IconArrays :
       rt = [stage |-> "volume", volume |-> volume, icons |-> icons]

PickIcon ==
  /\ pc = "run"
  /\ rt.stage = "volume"
  /\ ret' = Some(pick_icon(rt.volume, rt.icons))
  /\ rt' = [rt EXCEPT !.stage = "picked"]
  /\ UNCHANGED <<tui, keymap, pc, appvars, cfgvars>>

NextIcon == PickIcon

SpecIcon == InitIcon /\ [][NextIcon]_vars

\* the zero-based indices at which the array holds the icon picked
PickedAt == {i \in 0..(Len(rt.icons) - 1) : rt.icons[i + 1] = ret.some}

\* C27: the icon picked is the one at index min(n - 1, ceil(volume * (n - 1)
\* / 100)) of the n icons, an index inside the array: index 0 exactly for
\* volume 0; of 6 icons, index k in 1..5 exactly for the volumes 20(k - 1) + 1
\* to 20k; of 3 icons, index 1 up to volume 50 and index 2 from 51.
C27_PickIconIndexIsCeilingCapped ==
  rt.stage = "picked" =>
    LET n == Len(rt.icons)
        v == rt.volume
        ceiling == CHOOSE k \in 0..(v * n) : k * 100 >= v * (n - 1)
                                            /\ (k = 0 \/ (k - 1) * 100 < v * (n - 1))
    IN  /\ PickedAt = {Min(n - 1, ceiling)}
        /\ 0 \in PickedAt <=> v = 0
        /\ n = 6 /\ v <= 100
             => \A k \in 1..5 : k \in PickedAt <=> (20 * (k - 1) + 1 <= v /\ v <= 20 * k)
        /\ n = 3 /\ v <= 100
             => /\ 1 \in PickedAt <=> (1 <= v /\ v <= 50)
                /\ 2 \in PickedAt <=> 51 <= v

\* volume 21 of the six block icons: the third icon, index 2
C27_Witness ==
  /\ rt.stage = "picked"
  /\ rt.volume = 21
  /\ rt.icons = ICONS_BLOCK
  /\ ret = Some(ICONS_BLOCK[3])

(***************************************************************************)
(* Rendering.  The sizes a layout gives its regions are the solver's; a    *)
(* region is modelled by its place in the split and the constraint that    *)
(* governs it, the interior of a block by the rectangle and the edges      *)
(* taken off it.                                                           *)
(***************************************************************************)
Constraint(kind, n) == [kind |-> kind, n |-> n]

\* TuiBlock::get_inner
get_inner(self, rect) ==
  IF has_border(self) THEN [of |-> rect, less |-> self.border.border] ELSE rect

\* Layout::vertical(constraints).split(area), Layout::horizontal(..).split(area)
Layout_split(direction, constraints, area) ==
  [i \in 1..Len(constraints) |->
     [of |-> area, direction |-> direction, index |-> i - 1, constraint |-> constraints[i]]]

\* RootTui::has_widgets_border::<T>
has_widgets_border(self, T) ==
  LET i == get_widget(self.widgets, T)
  IN  IF i # 0 THEN has_border(self.widgets[i]) ELSE FALSE

\* PlayerTui::render: the children zipped with the areas of row 1, then row 2
PlayerTui_render(self, rect) ==
  LET inner == get_inner(self, rect)
      rows == Layout_split("vertical",
                <<Constraint("Percentage", 50), Constraint("Percentage", 50)>>, inner)
      columns == <<Constraint("Percentage", 30), Constraint("Min", 40), Constraint("Min", 30)>>
      row1_chunks == Layout_split("horizontal", columns, rows[1])
      row2_chunks == Layout_split("horizontal", columns, rows[2])
      areas == row1_chunks \o row2_chunks
  IN  [i \in 1..Min(Len(self.widgets), Len(areas)) |->
         [widget |-> self.widgets[i].type, area |-> areas[i]]]

\* RootTui::render: the regions of the layout, and child i drawn in
\* chunks[i]; indexing past the regions panics
RootTui_render(self, rect) ==
  LET inner == get_inner(self, rect)
      b == IF has_widgets_border(self, "ProgressTui") THEN 1 ELSE 0
      chunks == Layout_split("vertical",
                  <<Constraint("Min", 4), Constraint("Min", 3), Constraint("Fill", 20),
                    Constraint("Max", 1 + 2 * b)>>, inner)
  IN  IF Len(self.widgets) > Len(chunks) THEN [panic |-> "index out of bounds"]
      ELSE [chunks |-> chunks,
            draws |-> [i \in 1..Len(self.widgets) |->
                         [widget |-> self.widgets[i].type, area |-> chunks[i],
                          inside |-> IF self.widgets[i].type = "PlayerTui"
                                     THEN PlayerTui_render(self.widgets[i], chunks[i])
                                     ELSE << >>]]]

(***************************************************************************)
(* SpecRender: the tree under border toggles, drawn into the frame.        *)
(***************************************************************************)
FrameArea == [x |-> 0, y |-> 0, width |-> 100, height |-> 30]

Render ==
  /\ pc = "run"
  /\ ret' = Some(RootTui_render(tui, FrameArea))
  /\ UNCHANGED <<tui, keymap, pc, rt, appvars, cfgvars>>

NextRender ==
  \/ \E T \in Bordered : ToggleBorder(T)
  \/ ToggleAllBorder
  \/ Render

SpecRender == Init /\ [][NextRender]_vars

\* C28: RootTui::render splits its interior into as many regions as it has
\* children and draws child i in region i; the ProgressTui child is drawn in
\* the region bounded by 1 + 2b rows, b = 1 when ProgressTui has a border
\* and 0 otherwise.
C28_EveryChildInItsRegion ==
  [][Render =>
       LET chunks == ret'.some.chunks
           draws == ret'.some.draws
           b == IF has_border(WidgetOf(tui, "ProgressTui")) THEN 1 ELSE 0
       IN  /\ Len(chunks) = Len(tui.widgets)
           /\ Len(draws) = Len(tui.widgets)
           /\ \A i \in 1..Len(draws) :
                /\ draws[i].widget = tui.widgets[i].type
                /\ draws[i].area = chunks[i]
                /\ draws[i].widget = "ProgressTui"
                     => draws[i].area.constraint = Constraint("Max", 1 + 2 * b)]_vars

(***************************************************************************)
(* The frame of event dispatch.                                            *)
(***************************************************************************)
\* the widget type each event variant is routed to
EventTarget ==
     ("Playback" :> "PlaybackTui") @@ ("Volumei" :> "VolumeTui")
  @@ ("PlaybackProgress" :> "PlaybackProgressTui") @@ ("PlaybackMode" :> "PlaybackModeTui")
  @@ ("Artist" :> "ArtistTui") @@ ("Track" :> "TrackTui")
  @@ ("Navbar" :> "NavbarTui") @@ ("NavbarIcon" :> "NavbarTui")

TypesOf(widgets) == [i \in 1..Len(widgets) |-> widgets[i].type]

\* widget w1 is w0 but for its own fields: same type, same Border facet, and
\* when it is a container the same children
SameBut(w0, w1, target) ==
  /\ w1.type = w0.type
  /\ "border" \in DOMAIN w0 => w1.border = w0.border
  /\ w0.type # target /\ "widgets" \notin DOMAIN w0 => w1 = w0

\* C29: dispatching an event to RootTui changes the one widget the event
\* targets, through PlayerTui where the target is nested, and nothing else:
\* every other widget, every Border facet and the number and order of the
\* children of both containers stay as they were; Playback, PlaybackMode and
\* Navbar events always change their target.  Stated of every tree the
\* program reaches and of every event that can be dispatched to it next.
C29_DispatchChangesTheTargetOnly ==
  \A event \in TuiEnents :
    LET after == RootTui_enent_handle(tui, event)
        target == EventTarget[event.tag]
        p == get_widget(tui.widgets, "PlayerTui")
    IN  /\ after.border = tui.border
        /\ TypesOf(after.widgets) = TypesOf(tui.widgets)
        /\ \A i \in 1..Len(tui.widgets) : SameBut(tui.widgets[i], after.widgets[i], target)
        /\ TypesOf(after.widgets[p].widgets) = TypesOf(tui.widgets[p].widgets)
        /\ \A j \in 1..Len(tui.widgets[p].widgets) :
             SameBut(tui.widgets[p].widgets[j], after.widgets[p].widgets[j], target)
        /\ event.tag \in {"Playback", "PlaybackMode", "Navbar"}
             => \/ target = "NavbarTui" /\ WidgetOf(after, target) # WidgetOf(tui, target)
                \/ target # "NavbarTui" /\ Leaf(after, target) # Leaf(tui, target)

\* Track("X") went through PlayerTui to TrackTui and a Navbar event to
\* NavbarTui, the artist still the default
C29_Witness ==
  /\ Leaf(tui, "TrackTui").some.track = "X"
  /\ Leaf(tui, "ArtistTui").some.artist = "Not Artist"
  /\ WidgetOf(tui, "NavbarTui").selected_item # "Queue"

\* C30: the key map records write_default_if_not_exists writes, loaded back
\* and converted into a key map, are the bindings of default_keybindings: the
\* same 14 combinations bound to the same statuses; and nothing is written
\* when the default file already exists.
C30_DefaultFileAgreesWithDefaultKeybindings ==
  [][\A outcome \in WriteOutcomes :
       WriteDefaultIfNotExists(outcome) =>
         /\ exists(fs, LazyConfig_default_path(env)) => fs' = fs /\ ~config'.wrote
         /\ config'.wrote =>
              LET loaded == load(None, env, fs').result
              IN  /\ IsOk(loaded)
                  /\ IsSome(loaded.ok.keymap)
                  /\ Len(loaded.ok.keymap.some) = 14
                  /\ Keymaps_into(loaded.ok.keymap.some) = default_keybindings
                  /\ Cardinality(DOMAIN Keymaps_into(loaded.ok.keymap.some)) = 14]_vars

\* the default file was written, loaded and converted: the key map at hand
\* is the built-in one
C30_Witness ==
  /\ config.call = "load"
  /\ IsOk(config.result)
  /\ config.result.ok.path = LazyConfig_default_path(env)
  /\ ret = Some("into")
  /\ keymap = default_keybindings
====
